---- MODULE Spec2Model ----
(***************************************************************************)
(* Verification model of the AIbrowser agent core:                         *)
(*   - BrowserManager  (tab registry)          specification SpecTabs      *)
(*   - ElementTagger   (element scanner)       specification SpecScan      *)
(*   - WebAgent.executeAction (action pipeline) specification SpecAct      *)
(* Every asynchronous method is cut at its awaits: one action per          *)
(* synchronous run of code between two awaits, so that browser events      *)
(* (page, close, popup) interleave exactly where the event loop lets them. *)
(***************************************************************************)
EXTENDS Integers, Sequences, FiniteSets, TLC

\* ------------------------------------------------------------------------
\* Bounds
\* ------------------------------------------------------------------------
\* number of physical pages the browser creates during one run
NumHandles == 2

Handles == 1..NumHandles

\* JavaScript null of the id-typed fields (ids start at 1, and the code
\* tests them for truthiness, so 0 and null coincide)
NULL == 0

VARIABLES
  \* ---- browser side (Playwright context) ----
  ctxPages,            \* context.pages(): live page handles, browser order
  opened,              \* handles 1..opened have been created so far
  pageEvents,          \* handles whose 'page' event is not yet delivered
  \* ---- BrowserManager fields ----
  pages,               \* Map<number, Page> in insertion order
  nextPageId,
  activePageId,
  lastActivatedPageId,
  \* ---- the registry call in flight (position between awaits) ----
  call,
  \* ---- observations ----
  obs,                 \* what the registry operation of the last step saw
                       \* and returned ([op |-> "none"] if none finished)
  assigned             \* the ids registerPage allocated, in order

VARIABLES
  \* ---- the page the tagger scans ----
  dom,                 \* per element slot: in the DOM?, visible?, data-agent-id
  frames,              \* per iframe: "absent", "same" (same origin) or "cross"
  \* ---- ElementTagger ----
  nextId,
  \* ---- observations ----
  lastScan,            \* id the last finished scan returned per element (0:
                       \* not returned, or the element went or was hidden)
  since,               \* what happened to the document since that scan
  scanObs              \* value of nextId when the scan of the last step was
                       \* entered (0 if the last step was not a scan)

VARIABLES
  \* ---- WebAgent and RiskEvaluator fields ----
  currentPageId,       \* WebAgent.currentPageId
  enabled,             \* RiskEvaluator.enabled
  userAssistanceCallback, \* TRUE when WebAgent.userAssistanceCallback is set
  \* ---- the executeAction call in flight ----
  action,              \* its argument: [tool, parameters]
  riskAssessment,      \* its local riskAssessment, once evaluateRisk returned
  actPc,               \* the await it is suspended at ("idle": no call)
  error,               \* message of the Error it threw ("" if none)
  \* ---- observations ----
  trail                \* checks passed and browser calls made by the call
                       \* in flight, in the order they happened

VARIABLES
  \* ---- RiskEvaluator.evaluateRisk taken alone ----
  classifierReply,     \* what the classifier call of evaluateRisk produces
  \* ---- WebAgent.validateParameters taken alone ----
  validation           \* what validateParameters(action) threw or returned

riskVars == <<classifierReply, validation>>

tabVars == <<ctxPages, opened, pageEvents, pages, nextPageId,
             activePageId, lastActivatedPageId, call, obs, assigned>>

scanVars == <<dom, frames, nextId, lastScan, since, scanObs>>

actVars == <<currentPageId, enabled, userAssistanceCallback, action,
             riskAssessment, actPc, error, trail>>

VARIABLES
  \* ---- one PageActions call on one element of the page ----
  elem,                \* the element the call is about, as the page has it
  paCall,              \* the clickElement / typeText call in flight
  paTrail,             \* the checks and browser operations of that call,
                       \* in the order they happened
  paError              \* the message of the error the call threw, or ""

pageVars == <<elem, paCall, paTrail, paError>>

VARIABLES
  \* ---- BrowserManager.takeScreenshot and the file system ----
  shot,                \* the takeScreenshot call in flight
  files,               \* the files written so far, by absolute path
  shotResult           \* how the last takeScreenshot call ended

fsVars == <<shot, files, shotResult>>

VARIABLES
  \* ---- WebAgent.getCurrentBrowserState ----
  toon                 \* the section being serialized and its text

VARIABLES
  \* ---- WebAgent.executeTask ----
  running,             \* WebAgent.running
  tasks                \* per caller: where its executeTask call stands

loopVars == <<running, tasks>>

VARIABLES
  \* ---- the viewport, and the lookups of ElementTagger by id ----
  offscreen,           \* the slots whose bounding box is not fully inside
                       \* the viewport
  lookup               \* the last findElementById, isElementInteractable
                       \* or clearTags call and what it returned

viewVars == <<offscreen, lookup>>

VARIABLES
  \* ---- calls followed on their own ----
  cleaned,             \* ElementTagger.sanitizeNodeText: the text given and
                       \* the text returned
  waiting,             \* the wait action of executeAction and what
                       \* PageActions.wait asks of the page
  chat,                \* WebAgent.chatMessages along one executeTask call
  limiter              \* a RateLimiter, the clock and the requests granted

utilVars == <<cleaned, waiting, chat, limiter>>

vars == <<tabVars, scanVars, actVars, riskVars, pageVars, fsVars, toon,
          loopVars, viewVars, utilVars>>

\* ------------------------------------------------------------------------
\* The scanned page: a main document (0) with two iframes (1, 2), the
\* second of which holds an iframe of its own (3); each document has a
\* fixed number of element slots in document order, and a slot may hold an
\* interactive element or be empty.
\* ------------------------------------------------------------------------
\* element slots of the main document
MainSlots == 2

\* element slots of the document of the first iframe in the main document
FrameSlots == 1

Docs == {0, 1, 2, 3}

FrameDocs == {1, 2, 3}

\* the iframes of the main document
TopFrames == {1, 2}

\* the iframe of the pages that hold one iframe only
FirstFrame == {1}

\* doc.querySelectorAll('iframe') of each document, in document order
Children(d) == IF d = 0 THEN <<1, 2>> ELSE IF d = 2 THEN <<3>> ELSE <<>>

ParentDoc(f) == IF f = 3 THEN 2 ELSE 0

\* the second iframe and the iframe inside it hold one element at most
SlotCount(d) ==
  IF d = 0 THEN MainSlots ELSE IF d \in FirstFrame THEN FrameSlots ELSE 1

Slots ==
  {s \in Docs \X (1..(MainSlots + FrameSlots)) :
     s[2] <= SlotCount(s[1])}

\* present: in the DOM; visible: displayed, visibility not hidden, opacity
\* not 0, no hidden attribute, a bounding box that is not empty; fixed:
\* position fixed, so that offsetParent is null although it is displayed;
\* tag: its data-agent-id (0: none)
NoElement == [present |-> FALSE, visible |-> FALSE, fixed |-> FALSE, tag |-> 0]

\* a freshly loaded page that has not been scanned: an empty document
InitScanVars ==
  /\ dom = [s \in Slots |-> NoElement]
  /\ frames = [f \in FrameDocs |-> "absent"]
  /\ nextId = 1
  /\ lastScan = [s \in Slots |-> 0]
  /\ since = "noscan"
  /\ scanObs = 0

NoAction == [tool |-> "", parameters |-> <<>>]

NoAssessment == [risk_level |-> "", requires_confirmation |-> FALSE]

\* no classifier call has been made
NoReply == [call |-> "none"]

\* validateParameters has not been called
NoValidation == [error |-> "none", validated |-> <<>>]

InitRiskVars == classifierReply = NoReply /\ validation = NoValidation

\* a text field in view, and no PageActions call in flight
TextField ==
  [tag |-> "input", type |-> "text", inputmode |-> "", role |-> "",
   shown |-> TRUE, inView |-> TRUE, reachable |-> TRUE]

IdlePageCall == [op |-> "none", pc |-> "idle"]

InitPageVars ==
  /\ elem = TextField
  /\ paCall = IdlePageCall
  /\ paTrail = <<>>
  /\ paError = ""

\* no screenshot call in flight and nothing written
NoPath == [given |-> FALSE]
NoFile == [written |-> FALSE]
IdleShot == [pc |-> "idle", path |-> NoPath]
NoShotResult == [error |-> "none", wrote |-> NoFile]

InitFsVars ==
  /\ shot = IdleShot
  /\ files = {}
  /\ shotResult = NoShotResult

\* nothing serialized yet
NoSection == [pc |-> "idle"]

InitToon == toon = NoSection

\* the callers of executeTask, and a call that has not been made
Callers == {"a", "b"}

IdleTask ==
  [pc |-> "idle", iteration |-> 0, maxIterations |-> 0, fed |-> <<>>,
   declared |-> "-", action |-> NoAction, halted |-> FALSE]

InitLoopVars ==
  /\ running = FALSE
  /\ tasks = [t \in Callers |-> IdleTask]

\* everything in view, no lookup made
NoLookup == [op |-> "none"]

InitViewVars ==
  /\ offscreen = {}
  /\ lookup = NoLookup

\* no text sanitized, no wait asked for, no task, no request
NoText == [pc |-> "none"]

NoWait == [pc |-> "none"]

NoChat == [pc |-> "idle"]

NoLimiter == [pc |-> "none"]

InitUtilVars ==
  /\ cleaned = NoText
  /\ waiting = NoWait
  /\ chat = NoChat
  /\ limiter = NoLimiter

\* an agent that has not been initialized and executes nothing
InitActVars ==
  /\ currentPageId = NULL
  /\ enabled = TRUE
  /\ userAssistanceCallback = FALSE
  /\ action = NoAction
  /\ riskAssessment = NoAssessment
  /\ actPc = "idle"
  /\ error = ""
  /\ trail = <<>>

\* what a step of the tab registry leaves alone
TabsOnly == UNCHANGED <<scanVars, actVars, riskVars, pageVars, fsVars, toon, loopVars, viewVars, utilVars>>

\* what a step of the tagger leaves alone
ScanOnly == UNCHANGED <<tabVars, actVars, riskVars, pageVars, fsVars, toon, loopVars, viewVars, utilVars>>

\* what a step of the action pipeline leaves alone
ActOnly == UNCHANGED <<tabVars, scanVars, riskVars, pageVars, fsVars, toon, loopVars, viewVars, utilVars>>

Range(f) == {f[i] : i \in 1..Len(f)}

\* ------------------------------------------------------------------------
\* Map<number, Page> helpers (insertion-ordered sequence of entries)
\* ------------------------------------------------------------------------
Ids(ps) == {ps[i].id : i \in 1..Len(ps)}

Registered(ps, p) == \E i \in 1..Len(ps) : ps[i].page = p

\* first id under which handle p is stored (the for..of scan of the Map)
IdOf(ps, p) ==
  IF Registered(ps, p)
  THEN ps[CHOOSE i \in 1..Len(ps) :
            /\ ps[i].page = p
            /\ \A j \in 1..(i-1) : ps[j].page # p].id
  ELSE NULL

\* this.pages.get(id)
getPage(ps, id) ==
  IF id \in Ids(ps)
  THEN ps[CHOOSE i \in 1..Len(ps) : ps[i].id = id].page
  ELSE NULL

\* this.pages.delete(id)
MapDelete(ps, id) == SelectSeq(ps, LAMBDA e : e.id # id)

\* this.pages.keys().next().value || null
FirstKey(ps) == IF Len(ps) > 0 THEN ps[1].id ELSE NULL

\* Live Map iteration: the entry visited after the one with id cur. Entries
\* are appended with strictly growing ids, so "after cur" is "id > cur";
\* entries added during the iteration are visited, deleted ones are skipped.
NextEntry(ps, cur) ==
  LET later == SelectSeq(ps, LAMBDA e : e.id > cur)
  IN IF Len(later) > 0 THEN later[1].id ELSE NULL

IdleCall == [op |-> "idle"]

NoObs == [op |-> "none"]

\* ------------------------------------------------------------------------
\* registerPage
\* ------------------------------------------------------------------------
\* the first revision of registerPage: allocates without looking the handle up
registerPageNoLookup(ps, nxt, p) ==
  [pages |-> Append(ps, [id |-> nxt, page |-> p]),
   nextPageId |-> nxt + 1, ret |-> nxt]

\* the id is taken from the counter before the lookup
registerPageEarlyAlloc(ps, nxt, p) ==
  IF Registered(ps, p)
  THEN [pages |-> ps, nextPageId |-> nxt + 1, ret |-> IdOf(ps, p)]
  ELSE [pages |-> Append(ps, [id |-> nxt, page |-> p]),
        nextPageId |-> nxt + 1, ret |-> nxt]

\* allocation that takes the smallest id not in the table
registerPageReuse(ps, nxt, p) ==
  IF Registered(ps, p)
  THEN [pages |-> ps, nextPageId |-> nxt, ret |-> IdOf(ps, p)]
  ELSE LET free == CHOOSE k \in 1..(Len(ps)+1) :
                      /\ k \notin Ids(ps)
                      /\ \A j \in 1..(k-1) : j \in Ids(ps)
       IN [pages |-> Append(ps, [id |-> free, page |-> p]),
           nextPageId |-> free + 1, ret |-> free]

registerPage(ps, nxt, p) ==
  IF Registered(ps, p)
  THEN [pages |-> ps, nextPageId |-> nxt, ret |-> IdOf(ps, p)]
  ELSE [pages |-> Append(ps, [id |-> nxt, page |-> p]),
        nextPageId |-> nxt + 1, ret |-> nxt]

\* the state change of one registerPage(p) call, with its observation
DoRegister(p, caller) ==
  LET r == registerPage(pages, nextPageId, p)
      fresh == Len(r.pages) > Len(pages)
  IN /\ pages' = r.pages
     /\ nextPageId' = r.nextPageId
     /\ obs' = [op |-> "registerPage", caller |-> caller, page |-> p,
                ret |-> r.ret,
                had |-> IdOf(pages, p),
                bumped |-> r.nextPageId - nextPageId,
                grew |-> Len(r.pages) - Len(pages)]
     /\ assigned' = IF fresh
                    THEN Append(assigned, r.ret)
                    ELSE assigned

\* ------------------------------------------------------------------------
\* page.on('close') handler, closed over pageId
\* ------------------------------------------------------------------------
\* a handler that drops the entry and forgets to recompute the active tab
closeHandlerNoRecompute(st, pageId) ==
  LET ps == MapDelete(st.pages, pageId)
  IN [pages |-> ps,
      active |-> IF st.active = pageId THEN NULL ELSE st.active]

closeHandler(st, pageId) ==
  LET ps == MapDelete(st.pages, pageId)
  IN [pages |-> ps,
      active |-> IF st.active = pageId
                 THEN (IF Len(ps) > 0 THEN FirstKey(ps) ELSE NULL)
                 ELSE st.active]

\* every close listener attached to handle p fires, in registration order
RECURSIVE RunCloseHandlers(_, _)
RunCloseHandlers(st, ids) ==
  IF ids = <<>> THEN st
  ELSE RunCloseHandlers(closeHandler(st, Head(ids)), Tail(ids))

ListenersOf(ps, p) ==
  LET es == SelectSeq(ps, LAMBDA e : e.page = p)
  IN [i \in 1..Len(es) |-> es[i].id]

\* ------------------------------------------------------------------------
\* Browser events
\* ------------------------------------------------------------------------
\* a page opened outside the registry's calls (window.open by a script whose
\* opener is not tracked, a user-opened window): only the 'page' event fires
ExternalPageOpens ==
  /\ opened < NumHandles
  /\ opened' = opened + 1
  /\ ctxPages' = Append(ctxPages, opened + 1)
  /\ pageEvents' = pageEvents \cup {opened + 1}
  /\ obs' = NoObs
  /\ UNCHANGED <<pages, nextPageId, activePageId, lastActivatedPageId, call,
                 assigned>>
  /\ TabsOnly

\* a registered page opens a popup: page.on('popup') of the opener runs, and
\* the 'page' event of the new page is queued
PopupOpens(openerId) ==
  /\ opened < NumHandles
  /\ openerId \in Ids(pages)
  /\ opened' = opened + 1
  /\ ctxPages' = Append(ctxPages, opened + 1)
  /\ pageEvents' = pageEvents \cup {opened + 1}
  /\ lastActivatedPageId' = openerId
  /\ obs' = NoObs
  /\ UNCHANGED <<pages, nextPageId, activePageId, call, assigned>>
  /\ TabsOnly

\* context.on('page', page => this.registerPage(page))
PageEvent(p) ==
  /\ p \in pageEvents
  /\ pageEvents' = pageEvents \ {p}
  /\ DoRegister(p, "pageEvent")
  /\ UNCHANGED <<ctxPages, opened, activePageId, lastActivatedPageId, call>>
  /\ TabsOnly

\* The page closes (externally, or because closeTab asked for it): it leaves
\* context.pages() and its 'close' listeners run. The browser reports a
\* page's creation before its close, and a newPage() continuation runs in the
\* same turn as its response, so neither is still pending here.
PageClose(p) ==
  /\ p \in Range(ctxPages)
  /\ p \notin pageEvents
  /\ ~(call.op = "createTab" /\ call.page = p)
  /\ ~(call.op = "navigateTo" /\ call.pc = "newPage" /\ call.page = p)
  /\ ctxPages' = SelectSeq(ctxPages, LAMBDA q : q # p)
  /\ LET st == RunCloseHandlers([pages |-> pages, active |-> activePageId],
                                ListenersOf(pages, p))
     IN /\ pages' = st.pages
        /\ activePageId' = st.active
  /\ obs' = [op |-> "close", page |-> p, ids |-> ListenersOf(pages, p),
             active |-> activePageId]
  /\ UNCHANGED <<opened, pageEvents, nextPageId, lastActivatedPageId, call,
                 assigned>>
  /\ TabsOnly

\* ------------------------------------------------------------------------
\* createTab
\* ------------------------------------------------------------------------
\* existingPages.filter(page => !Array.from(this.pages.values()).includes(page))
unregisteredPages == SelectSeq(ctxPages, LAMBDA p : ~Registered(pages, p))

\* a createTab that takes the last unregistered page instead of the first
CreateTabReuseLast ==
  /\ call = IdleCall
  /\ Len(unregisteredPages) > 0
  /\ DoRegister(unregisteredPages[Len(unregisteredPages)], "createTab")
  /\ UNCHANGED <<ctxPages, opened, pageEvents, activePageId,
                 lastActivatedPageId, call>>
  /\ TabsOnly

\* branch "unregisteredPages.length > 0": synchronous to the end
CreateTabReuse ==
  /\ call = IdleCall
  /\ Len(unregisteredPages) > 0
  /\ DoRegister(unregisteredPages[1], "createTab")
  /\ UNCHANGED <<ctxPages, opened, pageEvents, activePageId,
                 lastActivatedPageId, call>>
  /\ TabsOnly

\* branch "else": await this.context.newPage(); the browser creates the page
\* and queues its 'page' event before the call's promise resolves
CreateTabNewPage ==
  /\ call = IdleCall
  /\ Len(unregisteredPages) = 0
  /\ opened < NumHandles
  /\ opened' = opened + 1
  /\ ctxPages' = Append(ctxPages, opened + 1)
  /\ pageEvents' = pageEvents \cup {opened + 1}
  /\ call' = [op |-> "createTab", page |-> opened + 1]
  /\ obs' = NoObs
  /\ UNCHANGED <<pages, nextPageId, activePageId, lastActivatedPageId,
                 assigned>>
  /\ TabsOnly

\* continuation after newPage(): return this.registerPage(page)
CreateTabResume ==
  /\ call.op = "createTab"
  /\ call.page \notin pageEvents
  /\ DoRegister(call.page, "createTab")
  /\ call' = IdleCall
  /\ UNCHANGED <<ctxPages, opened, pageEvents, activePageId,
                 lastActivatedPageId>>
  /\ TabsOnly

\* ------------------------------------------------------------------------
\* switchToTab / closeTab / navigate
\* ------------------------------------------------------------------------
ArgIds == 1..(NumHandles + 1)

\* throw new Error(`Page with ID ${pageId} not found`)
NotFound(method, id) == [op |-> method, err |-> "not found", id |-> id]

\* a switchToTab that records the id before it looks the page up
SwitchToTabNotFoundMarks(id) ==
  /\ call = IdleCall
  /\ getPage(pages, id) = NULL
  /\ lastActivatedPageId' = id
  /\ obs' = NotFound("switchToTab", id)
  /\ UNCHANGED <<ctxPages, opened, pageEvents, pages, nextPageId,
                 activePageId, call, assigned>>
  /\ TabsOnly

SwitchToTabNotFound(id) ==
  /\ call = IdleCall
  /\ getPage(pages, id) = NULL
  /\ obs' = NotFound("switchToTab", id)
  /\ UNCHANGED <<ctxPages, opened, pageEvents, pages, nextPageId,
                 activePageId, lastActivatedPageId, call, assigned>>
  /\ TabsOnly

\* up to "await page.bringToFront()"
SwitchToTabBegin(id) ==
  /\ call = IdleCall
  /\ getPage(pages, id) # NULL
  /\ call' = [op |-> "switchToTab", id |-> id, page |-> getPage(pages, id)]
  /\ obs' = NoObs
  /\ UNCHANGED <<ctxPages, opened, pageEvents, pages, nextPageId,
                 activePageId, lastActivatedPageId, assigned>>
  /\ TabsOnly

\* bringToFront() resolved (the page is open) or rejected (it closed)
SwitchToTabResume ==
  /\ call.op = "switchToTab"
  /\ call' = IdleCall
  /\ IF call.page \in Range(ctxPages)
     THEN /\ lastActivatedPageId' = call.id
          /\ obs' = [op |-> "switchToTab", err |-> "", id |-> call.id]
     ELSE /\ lastActivatedPageId' = lastActivatedPageId
          /\ obs' = [op |-> "switchToTab", err |-> "closed", id |-> call.id]
  /\ UNCHANGED <<ctxPages, opened, pageEvents, pages, nextPageId,
                 activePageId, assigned>>
  /\ TabsOnly

CloseTabNotFound(id) ==
  /\ call = IdleCall
  /\ getPage(pages, id) = NULL
  /\ obs' = NotFound("closeTab", id)
  /\ UNCHANGED <<ctxPages, opened, pageEvents, pages, nextPageId,
                 activePageId, lastActivatedPageId, call, assigned>>
  /\ TabsOnly

\* up to "await page.close()"
CloseTabBegin(id) ==
  /\ call = IdleCall
  /\ getPage(pages, id) # NULL
  /\ call' = [op |-> "closeTab", id |-> id, page |-> getPage(pages, id)]
  /\ obs' = NoObs
  /\ UNCHANGED <<ctxPages, opened, pageEvents, pages, nextPageId,
                 activePageId, lastActivatedPageId, assigned>>
  /\ TabsOnly

\* page.close() resolved after the page closed: this.pages.delete(pageId)
CloseTabResume ==
  /\ call.op = "closeTab"
  /\ call.page \notin Range(ctxPages)
  /\ pages' = MapDelete(pages, call.id)
  /\ call' = IdleCall
  /\ obs' = [op |-> "closeTab", err |-> "", id |-> call.id]
  /\ UNCHANGED <<ctxPages, opened, pageEvents, nextPageId, activePageId,
                 lastActivatedPageId, assigned>>
  /\ TabsOnly

\* navigate(pageId, url) on an id that is not in the table
NavigateNotFound(id) ==
  /\ call = IdleCall
  /\ getPage(pages, id) = NULL
  /\ obs' = NotFound("navigate", id)
  /\ UNCHANGED <<ctxPages, opened, pageEvents, pages, nextPageId,
                 activePageId, lastActivatedPageId, call, assigned>>
  /\ TabsOnly

\* ------------------------------------------------------------------------
\* getTabsInfo
\* ------------------------------------------------------------------------
\* Strategy 1: last manually activated page, if it is still in the table
Strategy1(ps, last) == IF last # NULL /\ last \in Ids(ps) THEN last ELSE NULL

\* Strategy 3: the first page of context.pages() that is in the table
Strategy3(ps, ctx) ==
  LET regd == SelectSeq(ctx, LAMBDA p : Registered(ps, p))
  IN IF Len(regd) > 0 THEN IdOf(ps, regd[1]) ELSE NULL

\* Strategies 3 and 4, which run without an await after the focus loop
ActiveFallback(ps, ctx) ==
  IF Strategy3(ps, ctx) # NULL THEN Strategy3(ps, ctx) ELSE FirstKey(ps)

\* tabs.forEach(tab => tab.is_active = ...); this.activePageId = ...; return
GtiFinish(tabs, actual) ==
  /\ obs' = [op |-> "getTabsInfo",
             tabs |-> [i \in 1..Len(tabs) |->
                         [id |-> tabs[i], is_active |-> (tabs[i] = actual)]]]
  /\ activePageId' = actual
  /\ call' = IdleCall

\* the code that runs, without an await, once the title loop is exhausted:
\* Strategy 1, then the first evaluate of the focus loop is started
GtiAfterTitles(tabs) ==
  IF Strategy1(pages, lastActivatedPageId) # NULL
  THEN GtiFinish(tabs, Strategy1(pages, lastActivatedPageId))
  ELSE IF NextEntry(pages, 0) = NULL
       THEN GtiFinish(tabs, ActiveFallback(pages, ctxPages))
       ELSE /\ call' = [op |-> "getTabsInfo", stage |-> "focus",
                        cur |-> NextEntry(pages, 0),
                        page |-> getPage(pages, NextEntry(pages, 0)),
                        tabs |-> tabs]
            /\ obs' = NoObs
            /\ UNCHANGED activePageId

\* entry: the title loop starts its first "await page.title()", or, on an
\* empty table, the whole method runs through
GetTabsInfoBegin ==
  /\ call = IdleCall
  /\ IF NextEntry(pages, 0) = NULL
     THEN GtiAfterTitles(<<>>)
     ELSE /\ call' = [op |-> "getTabsInfo", stage |-> "title",
                      cur |-> NextEntry(pages, 0),
                      page |-> getPage(pages, NextEntry(pages, 0)),
                      tabs |-> <<>>]
          /\ obs' = NoObs
          /\ UNCHANGED activePageId
  /\ UNCHANGED <<ctxPages, opened, pageEvents, pages, nextPageId,
                 lastActivatedPageId, assigned>>
  /\ TabsOnly

\* "await page.title()" settled: push the entry, or the catch skips it (the
\* page closed meanwhile, or it is navigating and the evaluation rejects)
GetTabsInfoTitle(ok) ==
  /\ call.op = "getTabsInfo" /\ call.stage = "title"
  /\ LET got == ok /\ call.page \in Range(ctxPages)
         tabs == IF got THEN Append(call.tabs, call.cur) ELSE call.tabs
         nxt == NextEntry(pages, call.cur)
     IN IF nxt # NULL
        THEN /\ call' = [call EXCEPT !.cur = nxt,
                                     !.page = getPage(pages, nxt),
                                     !.tabs = tabs]
             /\ obs' = NoObs
             /\ UNCHANGED activePageId
        ELSE GtiAfterTitles(tabs)
  /\ UNCHANGED <<ctxPages, opened, pageEvents, pages, nextPageId,
                 lastActivatedPageId, assigned>>
  /\ TabsOnly

FocusReplies == {"true", "false", "throws"}

\* "await page.evaluate(() => document.hasFocus())" settled
GetTabsInfoFocus(reply) ==
  /\ call.op = "getTabsInfo" /\ call.stage = "focus"
  /\ reply = "true" => call.page \in Range(ctxPages)
  /\ LET nxt == NextEntry(pages, call.cur)
     IN IF reply = "true"
        THEN GtiFinish(call.tabs, call.cur)
        ELSE IF nxt # NULL
             THEN /\ call' = [call EXCEPT !.cur = nxt,
                                          !.page = getPage(pages, nxt)]
                  /\ obs' = NoObs
                  /\ UNCHANGED activePageId
             ELSE GtiFinish(call.tabs, ActiveFallback(pages, ctxPages))
  /\ UNCHANGED <<ctxPages, opened, pageEvents, pages, nextPageId,
                 lastActivatedPageId, assigned>>
  /\ TabsOnly

\* ------------------------------------------------------------------------
\* Specification of the tab registry
\* ------------------------------------------------------------------------
\* after initialize(): an empty table; the context may already hold a page
\* that was created before the 'page' listener was attached
InitTabs ==
  /\ ctxPages \in {<<>>, <<1>>}
  /\ opened = Len(ctxPages)
  /\ pageEvents = {}
  /\ pages = <<>>
  /\ nextPageId = 1
  /\ activePageId = NULL
  /\ lastActivatedPageId = NULL
  /\ call = IdleCall
  /\ obs = NoObs
  /\ assigned = <<>>
  /\ InitScanVars
  /\ InitActVars
  /\ InitRiskVars
  /\ InitPageVars /\ InitFsVars /\ InitToon
  /\ InitLoopVars
  /\ InitViewVars
  /\ InitUtilVars

NextTabs ==
  \/ ExternalPageOpens
  \/ \E id \in ArgIds : PopupOpens(id)
  \/ \E p \in Handles : PageEvent(p)
  \/ \E p \in Handles : PageClose(p)
  \/ CreateTabReuse
  \/ CreateTabNewPage
  \/ CreateTabResume
  \/ \E id \in ArgIds : SwitchToTabNotFound(id)
  \/ \E id \in ArgIds : SwitchToTabBegin(id)
  \/ SwitchToTabResume
  \/ \E id \in ArgIds : CloseTabNotFound(id)
  \/ \E id \in ArgIds : CloseTabBegin(id)
  \/ CloseTabResume
  \/ \E id \in ArgIds : NavigateNotFound(id)
  \/ GetTabsInfoBegin
  \/ \E ok \in BOOLEAN : GetTabsInfoTitle(ok)
  \/ \E reply \in FocusReplies : GetTabsInfoFocus(reply)

SpecTabs == InitTabs /\ [][NextTabs]_vars

\* ------------------------------------------------------------------------
\* Properties of the tab registry
\* ------------------------------------------------------------------------
Live(id) == getPage(pages, id) \in Range(ctxPages)

\* C1: under every interleaving of createTab calls, 'page' events and close
\* events, no page handle is held in the id table under two different ids.
C1_OneIdPerHandle ==
  \A i, j \in 1..Len(pages) :
    pages[i].page = pages[j].page => pages[i].id = pages[j].id

\* the race happened: createTab's continuation registered the handle that
\* the 'page' event of its own newPage() had registered before
C1_Witness ==
  /\ obs.op = "registerPage"
  /\ obs.caller = "createTab"
  /\ obs.had # NULL
  /\ Len(pages) >= 1

\* C6: whenever the tab the active-tab pointer names is removed from the
\* table (by the close listener, on closeTab or on an external close) while
\* another tab stays registered, the pointer afterwards is not null and
\* names a registered, live tab.
C6_ActiveRecomputed ==
  [][ ( /\ activePageId # NULL
        /\ activePageId \in Ids(pages)
        /\ activePageId \notin Ids(pages')
        /\ Len(pages') > 0 )
      => ( /\ activePageId' # NULL
           /\ activePageId' \in Ids(pages')
           /\ getPage(pages', activePageId') \in Range(ctxPages') ) ]_vars

\* the active tab was just closed and another tab took over
C6_Witness ==
  /\ obs.op = "close"
  /\ obs.active # NULL
  /\ obs.active \in Range(obs.ids)
  /\ Len(pages) > 0
  /\ activePageId \in Ids(pages)

\* C7: every getTabsInfo() result produced while a tab is registered has
\* exactly one entry with is_active = true, and that entry is a registered,
\* live tab.
C7_ExactlyOneActive ==
  (obs.op = "getTabsInfo" /\ Len(pages) > 0)
    => LET act == {i \in 1..Len(obs.tabs) : obs.tabs[i].is_active}
       IN /\ Cardinality(act) = 1
          /\ \A i \in act : /\ obs.tabs[i].id \in Ids(pages)
                            /\ Live(obs.tabs[i].id)

\* C8: registering a handle that is already registered returns the id it
\* has, leaves the next-id counter and the number of tabs unchanged.
C8_RegisterIdempotent ==
  (obs.op = "registerPage" /\ obs.had # NULL)
    => /\ obs.ret = obs.had
       /\ obs.bumped = 0
       /\ obs.grew = 0

\* a registered handle was registered again while two tabs were open
C8_Witness ==
  /\ obs.op = "registerPage"
  /\ obs.had # NULL
  /\ Len(pages) >= 2

\* C9: ids are handed out in strictly increasing order of registration, so
\* an id once assigned is never assigned again, also after its tab closed.
C9_IdsIncreaseNeverReused ==
  \A i, j \in 1..Len(assigned) :
    i < j => assigned[i] < assigned[j]

\* a new handle was registered after an earlier tab had been closed
C9_Witness ==
  /\ obs.op = "registerPage"
  /\ obs.had = NULL
  /\ Len(assigned) >= 2
  /\ Len(pages) < Len(assigned)

\* ------------------------------------------------------------------------
\* ElementTagger.tagInteractiveElements
\* ------------------------------------------------------------------------
\* the document of frame f can be reached from the main document: every
\* iframe on the way is attached and same-origin
RECURSIVE Reachable(_)
Reachable(d) ==
  IF d = 0 THEN TRUE
  ELSE frames[d] = "same" /\ Reachable(ParentDoc(d))

\* the skip tests of the forEach body: display none, visibility hidden,
\* opacity 0, hidden attribute, no offsetParent, empty bounding box
Shown(e) == e.present /\ e.visible /\ ~e.fixed

\* the forEach over interactiveElements of document d from slot i on;
\* st = [tags, out, ctr]: data-agent-id per slot, returned id per slot,
\* idCounter
RECURSIVE ProcessSlots(_, _, _)
ProcessSlots(st, d, i) ==
  IF i > SlotCount(d) THEN st
  ELSE LET s == <<d, i>>
           existingId == st.tags[s]
       IN IF ~Shown(dom[s])
          THEN ProcessSlots(st, d, i + 1)
          ELSE IF existingId = 0
               THEN ProcessSlots([tags |-> [st.tags EXCEPT ![s] = st.ctr],
                                  out |-> [st.out EXCEPT ![s] = st.ctr],
                                  ctr |-> st.ctr + 1], d, i + 1)
               ELSE ProcessSlots([tags |-> st.tags,
                                  out |-> [st.out EXCEPT ![s] = existingId],
                                  ctr |-> st.ctr], d, i + 1)

\* processElementsInDocument(doc, startingId): the document's own
\* elements, then each of its iframes with the running counter; an iframe
\* whose contentDocument cannot be read is skipped
RECURSIVE ProcessDoc(_, _)
RECURSIVE ProcessFrames(_, _)
ProcessFrames(st, fs) ==
  IF fs = <<>> THEN st
  ELSE IF frames[Head(fs)] = "same"
       THEN ProcessFrames(ProcessDoc(st, Head(fs)), Tail(fs))
       ELSE ProcessFrames(st, Tail(fs))

\* a traversal whose recursion restarts the counter in every frame
ProcessDocRestart(st, d) ==
  ProcessFrames(ProcessSlots([st EXCEPT !.ctr = 1], d, 1), Children(d))

\* processElementsInDocument: idCounter starts at startingId, runs through
\* the document's elements and is handed on to its iframes
ProcessDoc(st, d) == ProcessFrames(ProcessSlots(st, d, 1), Children(d))

\* cleanupStaleIds: removes data-agent-id from the elements that
\* document.querySelectorAll reaches, which are those of the main document
cleanupStaleIds(tags) ==
  [s \in Slots |-> IF s[1] = 0 THEN 0 ELSE tags[s]]

\* a start of the scan that keeps the counter where the last scan left it
ScanStartIdKeep(n) == n

\* "this.nextId = 1" at the start of tagInteractiveElements
ScanStartId(n) == 1

TagsOf(dm) == [s \in Slots |-> dm[s].tag]

WithTags(dm, tags) == [s \in Slots |-> [dm[s] EXCEPT !.tag = tags[s]]]

\* since: "noscan" (the document was loaded and not scanned yet), "first"
\* (scanned once since it was loaded, unchanged since), "same" (unchanged
\* since the last scan), "twice" (unchanged since the last two scans),
\* "mutated" (changed since the last scan)
AfterScan ==
  IF since = "noscan" THEN "first"
  ELSE IF since = "mutated" THEN "same" ELSE "twice"

Mutated == IF since = "noscan" THEN "noscan" ELSE "mutated"

\* tagInteractiveElements: reset of the counter, cleanupStaleIds, the
\* page.evaluate that tags and collects, and the return of the elements.
\* The two evaluates are one step: a change of the page between them never
\* writes a data-agent-id, so it has the effect it has just before the scan.
tagInteractiveElements ==
  /\ LET r == ProcessDoc([tags |-> cleanupStaleIds(TagsOf(dom)),
                          out |-> [s \in Slots |-> 0],
                          ctr |-> ScanStartId(nextId)], 0)
     IN /\ dom' = WithTags(dom, r.tags)
        /\ nextId' = r.ctr
        /\ lastScan' = r.out
  /\ since' = AfterScan
  /\ scanObs' = nextId
  /\ UNCHANGED frames
  /\ ScanOnly

\* the same tagger scans another tab in between: there it resets the counter
\* and leaves it one above the number n of elements it tagged
ScanOtherTab(n) ==
  /\ nextId' = n + 1
  /\ nextId' # nextId
  /\ scanObs' = 0
  /\ UNCHANGED <<dom, frames, lastScan, since>>
  /\ ScanOnly

\* ------------------------------------------------------------------------
\* The page changes under the tagger
\* ------------------------------------------------------------------------
\* an interactive element is inserted (a new node: it carries no id)
ElementAppears(s, vis) ==
  /\ ~dom[s].present
  /\ Reachable(s[1])
  /\ dom' = [dom EXCEPT ![s] = [present |-> TRUE, visible |-> vis,
                                fixed |-> FALSE, tag |-> 0]]
  /\ since' = Mutated
  /\ scanObs' = 0
  /\ UNCHANGED <<frames, nextId, lastScan>>
  /\ ScanOnly

\* an interactive element with position fixed is inserted
FixedElementAppears(s, vis) ==
  /\ ~dom[s].present
  /\ Reachable(s[1])
  /\ dom' = [dom EXCEPT ![s] = [present |-> TRUE, visible |-> vis,
                                fixed |-> TRUE, tag |-> 0]]
  /\ since' = Mutated
  /\ scanObs' = 0
  /\ UNCHANGED <<frames, nextId, lastScan>>
  /\ ScanOnly

\* an element is removed from its document
ElementDisappears(s) ==
  /\ dom[s].present
  /\ dom' = [dom EXCEPT ![s] = NoElement]
  /\ lastScan' = [lastScan EXCEPT ![s] = 0]
  /\ since' = Mutated
  /\ scanObs' = 0
  /\ UNCHANGED <<frames, nextId>>
  /\ ScanOnly

\* an element is hidden or shown (style or hidden attribute changes); the
\* node and its data-agent-id attribute stay
ElementToggles(s) ==
  /\ dom[s].present
  /\ dom' = [dom EXCEPT ![s].visible = ~dom[s].visible]
  /\ lastScan' = [lastScan EXCEPT ![s] = 0]
  /\ since' = Mutated
  /\ scanObs' = 0
  /\ UNCHANGED <<frames, nextId>>
  /\ ScanOnly

\* the documents of frame f and of the frames below it
BelowOf == [f \in FrameDocs |-> {d \in FrameDocs : d = f \/ ParentDoc(d) = f}]

Below(f) == BelowOf[f]

\* an iframe loads a document (same-origin or cross-origin), replacing what
\* it held; the new document starts empty
FrameLoads(f, origin) ==
  /\ Reachable(ParentDoc(f))
  /\ frames[f] # origin \/ \E s \in Slots : s[1] \in Below(f) /\ dom[s].present
  /\ frames' = [d \in FrameDocs |->
                  IF d = f THEN origin
                  ELSE IF d \in Below(f) THEN "absent" ELSE frames[d]]
  /\ dom' = [s \in Slots |-> IF s[1] \in Below(f) THEN NoElement ELSE dom[s]]
  /\ lastScan' = [s \in Slots |-> IF s[1] \in Below(f) THEN 0 ELSE lastScan[s]]
  /\ since' = Mutated
  /\ scanObs' = 0
  /\ UNCHANGED nextId
  /\ ScanOnly

\* page.goto / reload: the whole document tree is replaced
Navigation ==
  /\ since # "noscan" \/ dom # [s \in Slots |-> NoElement]
        \/ frames # [f \in FrameDocs |-> "absent"]
  /\ dom' = [s \in Slots |-> NoElement]
  /\ frames' = [f \in FrameDocs |-> "absent"]
  /\ lastScan' = [s \in Slots |-> 0]
  /\ since' = "noscan"
  /\ scanObs' = 0
  /\ UNCHANGED nextId
  /\ ScanOnly

\* ------------------------------------------------------------------------
\* Specification of the element scanner
\* ------------------------------------------------------------------------
InitTabVars ==
  /\ ctxPages = <<1>>
  /\ opened = 1
  /\ pageEvents = {}
  /\ pages = <<[id |-> 1, page |-> 1]>>
  /\ nextPageId = 2
  /\ activePageId = 1
  /\ lastActivatedPageId = NULL
  /\ call = IdleCall
  /\ obs = NoObs
  /\ assigned = <<1>>

InitScan ==
  InitScanVars /\ InitTabVars /\ InitActVars /\ InitRiskVars /\ InitPageVars /\ InitFsVars /\ InitToon
  /\ InitLoopVars
  /\ InitViewVars
  /\ InitUtilVars

NextScan ==
  \/ tagInteractiveElements
  \/ \E n \in 0..MainSlots : ScanOtherTab(n)
  \/ \E s \in Slots, vis \in BOOLEAN : ElementAppears(s, vis)
  \/ \E s \in Slots : ElementDisappears(s)
  \/ \E s \in Slots : ElementToggles(s)
  \/ \E f \in FirstFrame, origin \in {"same", "cross"} : FrameLoads(f, origin)
  \/ Navigation

SpecScan == InitScan /\ [][NextScan]_vars

\* ------------------------------------------------------------------------
\* Properties of the element scanner
\* ------------------------------------------------------------------------
Returned(ls) == {s \in Slots : ls[s] # 0}

\* C2: after any sequence of scans and DOM mutations, the ids one scan
\* returns contain no duplicates across the main document and all traversed
\* frames.
C2_NoDuplicateIds ==
  \A s, t \in Returned(lastScan) : s # t => lastScan[s] # lastScan[t]

\* C3: an element that a scan returned, and that stays in the unreloaded
\* page, is returned by the next scan under the same id, whatever other
\* elements were added, removed, hidden or shown in between.
C3_IdsStable ==
  [][ \A s \in Slots :
        (lastScan[s] # 0 /\ lastScan'[s] # 0) => lastScan'[s] = lastScan[s]
    ]_vars

\* C4: two consecutive scans of a document that does not change between
\* them return the same elements with the same ids.
C4_RescanSame ==
  [][ (since \in {"first", "same", "twice"} /\ since' = "twice")
        => lastScan' = lastScan ]_vars

\* an unchanged document with elements in the main document and in a frame
\* was scanned twice in a row
C4_Witness ==
  /\ since = "twice"
  /\ \E s, t \in Returned(lastScan) : s[1] = 0 /\ t[1] = 1

\* C5: the first scan of a document that a navigation or reload has loaded
\* numbers the returned elements 1..n, whatever the counter was before.
C5_RestartAtOne ==
  [][ (since = "noscan" /\ since' = "first")
        => LET ids == {lastScan'[s] : s \in Returned(lastScan')}
           IN /\ ids = 1..Cardinality(Returned(lastScan'))
              /\ \A s \in Returned(lastScan') : dom'[s].tag = lastScan'[s]
    ]_vars

\* a new document was scanned for the first time by a tagger whose counter
\* stood above 1, and elements of the main document and of a frame got ids
C5_Witness ==
  /\ since = "first"
  /\ scanObs > 1
  /\ \E s, t \in Returned(lastScan) : s[1] = 0 /\ t[1] = 1

\* ------------------------------------------------------------------------
\* WebAgent.executeAction: the action pipeline
\* ------------------------------------------------------------------------
\* most parameters one request carries
MaxParams == 2

\* JavaScript values.  A string is the sequence of its lexical pieces
\* (words, scheme prefixes, separators, host labels), so that the tests the
\* code makes on strings (prefix, suffix, containment, removal of a class of
\* characters) are computed on the pieces.
Num(n) == [t |-> "number", n |-> n, s |-> <<>>]

Str(s) == [t |-> "string", n |-> 0, s |-> s]

Bool(b) == [t |-> "boolean", n |-> IF b THEN 1 ELSE 0, s |-> <<>>]

\* the null a validator returns for a value it refuses
Null == [t |-> "null", n |-> 0, s |-> <<>>]

\* Number(value); nan stands for NaN.  The strings of the model hold no
\* numerals, so only the empty string converts to a number.
ToNumber(v) ==
  IF v.t \in {"number", "boolean"} THEN [nan |-> FALSE, n |-> v.n]
  ELSE IF v.t = "string" /\ v.s = <<>> THEN [nan |-> FALSE, n |-> 0]
  ELSE [nan |-> TRUE, n |-> 0]

\* JavaScript truthiness
Truthy(v) ==
  IF v.t = "number" THEN v.n # 0
  ELSE IF v.t = "boolean" THEN v.n = 1
  ELSE IF v.t = "string" THEN v.s # <<>>
  ELSE FALSE

\* String.prototype.toLowerCase on one piece
Lower(tok) ==
  IF tok = "JavaScript:" THEN "javascript:"
  ELSE IF tok = "LOCALHOST" THEN "localhost"
  ELSE tok

LowerAll(s) == [i \in 1..Len(s) |-> Lower(s[i])]

\* String.prototype.substring(0, n)
Prefix(s, n) == IF Len(s) <= n THEN s ELSE SubSeq(s, 1, n)

\* String.prototype.includes for a pattern of one or more pieces
Includes(s, pat) ==
  \E i \in 1..Len(s) :
    /\ i + Len(pat) - 1 <= Len(s)
    /\ SubSeq(s, i, i + Len(pat) - 1) = pat

\* pieces standing for the characters \x00-\x08, \x0B, \x0C, \x0E-\x1F, \x7F
ControlChars == {"<NUL>", "<ESC>"}

\* pieces standing for a whole <script>...</script> element
ScriptElements == {"<script>alert(1)</script>"}

NotControl(tok) == tok \notin ControlChars

NotScript(tok) == tok \notin ScriptElements

MaxElementId == 10000

MaxDuration == 60000

TextLimit == 1000

SummaryLimit == 200

ReasonLimit == 500

FilenameLimit == 50

SelectorLimit == 200

\* validationRules.id and validationRules.page_id
validateId(v) ==
  LET num == ToNumber(v)
  IN IF ~num.nan /\ num.n > 0 /\ num.n <= MaxElementId
     THEN Num(num.n) ELSE Null

\* validationRules.text
validateText(v) ==
  IF v.t # "string" THEN Null
  ELSE LET sanitized ==
             Prefix(SelectSeq(SelectSeq(v.s, NotControl), NotScript),
                    TextLimit)
       IN IF Len(sanitized) > 0 THEN Str(sanitized) ELSE Null

\* the schemes new URL() parses in the model's strings
Schemes ==
  {"http:", "https:", "javascript:", "data:", "vbscript:", "file:", "ftp:"}

WebSchemes == {"http:", "https:"}

\* new URL(value) does not throw: a scheme comes first, and a web URL
\* continues with "//" and a host
ParsesAsUrl(s) ==
  /\ Len(s) >= 1
  /\ s[1] \in Schemes
  /\ s[1] \in WebSchemes => (Len(s) >= 3 /\ s[2] = "//" /\ s[3] # "/")

\* url.hostname.toLowerCase(): the labels from piece i up to the path
RECURSIVE HostLabels(_, _)
HostLabels(s, i) ==
  IF i > Len(s) \/ s[i] = "/" THEN <<>>
  ELSE <<Lower(s[i])>> \o HostLabels(s, i + 1)

\* url.toString(): lower-case host, and "/" for an empty path
UrlToString(s) ==
  LET h == HostLabels(s, 3)
      rest == IF 2 + Len(h) >= Len(s) THEN <<"/">>
              ELSE SubSeq(s, 3 + Len(h), Len(s))
  IN <<s[1], "//">> \o h \o rest

\* validationRules.url
validateUrl(v) ==
  IF v.t # "string" THEN Null
  ELSE IF ~ParsesAsUrl(v.s) THEN Null
  ELSE IF v.s[1] \notin WebSchemes THEN Null
  ELSE LET hostname == HostLabels(v.s, 3)
           n == Len(hostname)
       IN IF \/ hostname = <<"localhost">>
             \/ (n >= 2 /\ hostname[1] = "127")
             \/ (n >= 3 /\ hostname[1] = "192" /\ hostname[2] = "168")
             \/ (n >= 2 /\ hostname[1] = "10")
             \/ (n >= 2 /\ hostname[n] = "local")
          THEN Null
          ELSE Str(UrlToString(v.s))

\* validationRules.direction
validateDirection(v) ==
  IF v.t = "string" /\ v.s \in {<<"up">>, <<"down">>} THEN v ELSE Null

\* validationRules.duration
validateDuration(v) ==
  LET num == ToNumber(v)
  IN IF ~num.nan /\ num.n >= 0 /\ num.n <= MaxDuration
     THEN Num(num.n) ELSE Null

\* validationRules.new_tab and validationRules.is_critical
validateBoolean(v) == IF v.t = "boolean" THEN v ELSE Null

\* pieces made of the characters [a-zA-Z0-9._-] only
FilenameSafe == {"shot", "page", "..", ".png", ".jpg", ".jpeg", ".bmp",
                 ".gif", ".txt"}

ImageExtensions == {".png", ".jpg", ".jpeg", ".bmp", ".gif"}

\* validationRules.filename
validateFilename(v) ==
  IF v.t # "string" THEN Null
  ELSE LET sanitized ==
             Prefix([i \in 1..Len(v.s) |->
                       IF v.s[i] \in FilenameSafe THEN v.s[i] ELSE "_"],
                    FilenameLimit)
       IN IF sanitized = <<>> \/ sanitized[Len(sanitized)] \notin ImageExtensions
          THEN Str(Append(sanitized, ".png"))
          ELSE Str(sanitized)

\* validationRules.summary
validateSummary(v) ==
  IF v.t # "string" THEN Null
  ELSE LET sanitized == Prefix(SelectSeq(v.s, NotControl), SummaryLimit)
       IN IF Len(sanitized) > 0 THEN Str(sanitized) ELSE Null

\* validationRules.reason
validateReason(v) ==
  IF v.t # "string" THEN Null
  ELSE LET sanitized == Prefix(SelectSeq(v.s, NotControl), ReasonLimit)
       IN IF Len(sanitized) > 0 THEN Str(sanitized) ELSE Null

\* dangerousPatterns of the selector rule
DangerousSelectorPieces ==
  {"javascript:", "data:", "vbscript:", "expression(", "@import",
   "behavior:", "binding:", "<!--", "-->", "\\41"}

\* pieces made of the characters the selector rule allows
SelectorSafe == {"#submit", ".item", "div", ">", "button"}

\* validationRules.selector (the dangerous patterns are matched without
\* regard to case)
validateSelector(v) ==
  IF v.t # "string" THEN Null
  ELSE IF \E i \in 1..Len(v.s) : Lower(v.s[i]) \in DangerousSelectorPieces
       THEN Null
       ELSE IF Len(v.s) <= SelectorLimit
               /\ Len(v.s) > 0
               /\ \A i \in 1..Len(v.s) : v.s[i] \in SelectorSafe
            THEN v ELSE Null

\* the keys of validationRules
ValidatorKeys ==
  {"id", "page_id", "text", "url", "direction", "duration", "new_tab",
   "filename", "summary", "reason", "selector", "is_critical"}

\* validationRules[key](value)
Validator(key, v) ==
  CASE key \in {"id", "page_id"} -> validateId(v)
    [] key = "text" -> validateText(v)
    [] key = "url" -> validateUrl(v)
    [] key = "direction" -> validateDirection(v)
    [] key = "duration" -> validateDuration(v)
    [] key \in {"new_tab", "is_critical"} -> validateBoolean(v)
    [] key = "filename" -> validateFilename(v)
    [] key = "summary" -> validateSummary(v)
    [] key = "reason" -> validateReason(v)
    [] key = "selector" -> validateSelector(v)

\* requiredParams[action] || []
requiredParams(tool) ==
  CASE tool = "click_element" -> <<"id">>
    [] tool = "type_text" -> <<"id", "text">>
    [] tool = "navigate_to" -> <<"url">>
    [] tool = "scroll_page" -> <<"direction">>
    [] tool = "request_user_assistance" -> <<"reason">>
    [] tool = "goal_achieved" -> <<"summary">>
    [] OTHER -> <<>>

Keys(parameters) == {parameters[i].key : i \in 1..Len(parameters)}

\* parameters[key]; undefined is the null value
Param(parameters, key) ==
  IF key \in Keys(parameters)
  THEN (CHOOSE e \in Range(parameters) : e.key = key).value
  ELSE Null

\* a loop that passes over the entries it has no validator for
RECURSIVE ValidateEntriesSkipUnknown(_, _, _)
ValidateEntriesSkipUnknown(parameters, i, validated) ==
  IF i > Len(parameters) THEN [error |-> "", validated |-> validated]
  ELSE LET key == parameters[i].key
       IN IF key \notin ValidatorKeys
          THEN ValidateEntriesSkipUnknown(parameters, i + 1, validated)
          ELSE LET validatedValue == Validator(key, parameters[i].value)
               IN IF validatedValue # Null
                  THEN ValidateEntriesSkipUnknown(parameters, i + 1,
                         Append(validated,
                                [key |-> key, value |-> validatedValue]))
                  ELSE [error |-> "Invalid parameter", validated |-> <<>>]

\* the loop over Object.entries(parameters) from entry i on: the first
\* entry without a validator, or whose validator returns null, throws
RECURSIVE ValidateEntries(_, _, _)
ValidateEntries(parameters, i, validated) ==
  IF i > Len(parameters) THEN [error |-> "", validated |-> validated]
  ELSE LET key == parameters[i].key
       IN IF key \notin ValidatorKeys
          THEN [error |-> "Unknown parameter", validated |-> <<>>]
          ELSE LET validatedValue == Validator(key, parameters[i].value)
               IN IF validatedValue # Null
                  THEN ValidateEntries(parameters, i + 1,
                         Append(validated,
                                [key |-> key, value |-> validatedValue]))
                  ELSE [error |-> "Invalid parameter", validated |-> <<>>]

\* validateParameters(action, parameters): error is the message of the
\* Error thrown ("" when it returns), validated the object returned
validateParameters(tool, parameters) ==
  LET r == ValidateEntries(parameters, 1, <<>>)
      required == requiredParams(tool)
  IN IF r.error # "" THEN r
     ELSE IF \E i \in 1..Len(required) : required[i] \notin Keys(r.validated)
          THEN [error |-> "Required parameter missing", validated |-> <<>>]
          ELSE r

\* blocklist of shouldBlockAction
Blocklist ==
  {"eval", "execute", "download_file", "install_extension",
   "modify_settings"}

\* blockedParamPatterns of shouldBlockAction
BlockedParamPatterns ==
  {<<"javascript:">>, <<"data:">>, <<"vbscript:">>, <<"file:", "//">>,
   <<"ftp:", "//">>}

\* action.tool.includes(blocked): among the tool names of the model only a
\* blocklist word itself contains a blocklist word
ToolIncludes(tool, blocked) == tool = blocked

\* JSON.stringify(action.parameters): keys and values in entry order
RECURSIVE Stringify(_, _)
Stringify(parameters, i) ==
  IF i > Len(parameters) THEN <<>>
  ELSE <<parameters[i].key>> \o parameters[i].value.s
         \o Stringify(parameters, i + 1)

\* a block check that looks at the tool name only
shouldBlockActionToolOnly(a) ==
  \E blocked \in Blocklist : ToolIncludes(a.tool, blocked)

\* RiskEvaluator.shouldBlockAction
shouldBlockAction(a) ==
  \/ \E blocked \in Blocklist : ToolIncludes(a.tool, blocked)
  \/ \E pattern \in BlockedParamPatterns :
       Includes(LowerAll(Stringify(a.parameters, 1)), pattern)

\* what the classifier call of evaluateRisk can produce: it throws, or it
\* returns a message whose first content block is missing, is not text, or
\* is text holding no JSON object, a malformed one, or an object with the
\* fields risk_level, reasoning and requires_confirmation (the latter
\* given by the kind of its JSON value; "undefined": the field is absent)
ClassifierReplies ==
  {[call |-> "throws"]}
  \cup {[call |-> "returns", type |-> t] : t \in {"missing", "tool_use"}}
  \cup {[call |-> "returns", type |-> "text", json |-> j] :
          j \in {"none", "malformed"}}
  \cup {[call |-> "returns", type |-> "text", json |-> "object",
          risk_level |-> l, reasoning |-> r, requires_confirmation |-> c] :
          l \in {"", "LOW", "MEDIUM", "HIGH", "SEVERE", "low"},
          r \in {"", "because"},
          c \in {"undefined", "true", "false", "null", "string"}}

\* Boolean(parsed.requires_confirmation): a non-empty string is truthy
ToBoolean(c) == c \in {"true", "string"}

\* the assessment both catch blocks of the RiskEvaluator return
HighRisk == [risk_level |-> "HIGH", requires_confirmation |-> TRUE]

\* the assessment evaluateRisk returns when risk evaluation is disabled
LowRisk == [risk_level |-> "LOW", requires_confirmation |-> FALSE]

\* RiskEvaluator.parseRiskAssessment(response.content[0]): every throw
\* inside it ends in its catch block
parseRiskAssessment(content) ==
  IF content.type # "text" THEN HighRisk
  ELSE IF content.json # "object" THEN HighRisk
  ELSE IF \/ content.risk_level = ""
          \/ content.reasoning = ""
          \/ content.requires_confirmation = "undefined"
       THEN HighRisk
       ELSE IF content.risk_level \notin {"LOW", "MEDIUM", "HIGH"}
            THEN HighRisk
            ELSE [risk_level |-> content.risk_level,
                  requires_confirmation |->
                    ToBoolean(content.requires_confirmation)]

\* an evaluateRisk whose catch block lets the action through
evaluateRiskFailOpen(reply) ==
  IF reply.call = "throws" THEN LowRisk ELSE parseRiskAssessment(reply)

\* the RiskAssessment evaluateRisk returns, with risk evaluation enabled,
\* for what the classifier call produced
evaluateRisk(reply) ==
  IF reply.call = "throws" THEN HighRisk ELSE parseRiskAssessment(reply)

\* the tool names requests carry: the nine of the switch in executeAction,
\* one of the blocklist, one that is none of these
Tools ==
  {"click_element", "type_text", "navigate_to", "scroll_page",
   "switch_to_page", "wait", "request_user_assistance", "screenshot",
   "goal_achieved", "download_file", "hover"}

\* the parameter entries requests are built from
Entries ==
  {[key |-> "id", value |-> Num(1)],
   [key |-> "id", value |-> Num(0)],
   [key |-> "text", value |-> Str(<<"hello">>)],
   [key |-> "text", value |-> Str(<<"see", "data:", "x">>)],
   [key |-> "url", value |-> Str(<<"https:", "//", "example", "com", "/">>)],
   [key |-> "url", value |-> Str(<<"javascript:", "alert(1)">>)],
   [key |-> "direction", value |-> Str(<<"down">>)],
   [key |-> "page_id", value |-> Num(2)],
   [key |-> "new_tab", value |-> Bool(TRUE)],
   [key |-> "reason", value |-> Str(<<"captcha">>)],
   [key |-> "summary", value |-> Str(<<"done">>)],
   [key |-> "script", value |-> Str(<<"x">>)]}

\* parameter objects of at most MaxParams entries, in the order of
\* Object.entries: an object has each key once
ParamBags ==
  UNION {{b \in [1..n -> Entries] :
            \A i, j \in 1..n : i < j => b[i].key # b[j].key} :
         n \in 0..MaxParams}

Actions == [tool : Tools, parameters : ParamBags]

\* the browser-side operation each PageActions method performs
ActionOps ==
  {"click", "fill", "goto", "scroll", "bringToFront", "wait", "screenshot"}

\* the throw of validateParameters leaves executeAction at once: where the
\* call stands after line 452
AfterValidationIgnored(r) == "context"

AfterValidation(r) == IF r.error # "" THEN "done" ELSE "context"

\* WebAgent.initialize: the agent takes the tab createTab returns
Initialize ==
  /\ actPc = "idle"
  /\ currentPageId = NULL
  /\ currentPageId' = 1
  /\ UNCHANGED <<enabled, userAssistanceCallback, action, riskAssessment,
                 actPc, error, trail>>
  /\ ActOnly

\* WebAgent.setUserAssistanceCallback
SetUserAssistanceCallback ==
  /\ actPc = "idle"
  /\ ~userAssistanceCallback
  /\ userAssistanceCallback' = TRUE
  /\ UNCHANGED <<currentPageId, enabled, action, riskAssessment, actPc, error,
                 trail>>
  /\ ActOnly

\* RiskEvaluator.setEnabled
SetEnabled(b) ==
  /\ actPc = "idle"
  /\ enabled # b
  /\ enabled' = b
  /\ UNCHANGED <<currentPageId, userAssistanceCallback, action,
                 riskAssessment, actPc, error, trail>>
  /\ ActOnly

\* executeAction(a), for any action a the model's reply may hold, up to its
\* first await: the active-page test and validateParameters
ExecuteAction ==
  /\ actPc = "idle"
  /\ \E a \in Actions :
       /\ action' = a
       /\ IF currentPageId = NULL
          THEN /\ error' = "No active page"
               /\ actPc' = "done"
               /\ trail' = <<>>
          ELSE LET r == validateParameters(a.tool, a.parameters)
               IN /\ error' = r.error
                  /\ actPc' = AfterValidation(r)
                  /\ trail' = IF r.error # "" THEN <<"rejected">>
                              ELSE <<"validated">>
  /\ UNCHANGED <<currentPageId, enabled, userAssistanceCallback,
                 riskAssessment>>
  /\ ActOnly

\* getCurrentPageInfo and buildSecurityContext have returned: the block
\* check, and evaluateRisk up to the classifier call (none when risk
\* evaluation is disabled: the assessment is LOW without confirmation)
BuildSecurityContext ==
  /\ actPc = "context"
  /\ LET read == IF Truthy(Param(action.parameters, "id"))
                 THEN <<"getPageInfo", "scan">> ELSE <<"getPageInfo">>
     IN IF shouldBlockAction(action)
        THEN /\ error' = "Action blocked by security policy"
             /\ actPc' = "done"
             /\ trail' = trail \o read \o <<"blocked">>
             /\ UNCHANGED riskAssessment
        ELSE IF ~enabled
             THEN /\ actPc' = "limit"
                  /\ riskAssessment' = LowRisk
                  /\ trail' = trail \o read \o <<"blockChecked", "riskAssessed">>
                  /\ UNCHANGED error
             ELSE /\ actPc' = "risk"
                  /\ trail' = trail \o read \o <<"blockChecked">>
                  /\ UNCHANGED <<error, riskAssessment>>
  /\ UNCHANGED <<currentPageId, enabled, userAssistanceCallback, action>>
  /\ ActOnly

\* how the user assistance callback can settle
CallbackOutcomes == {"true", "false", "throws"}

\* the trail entry for a callback outcome
CallbackEvent(outcome) ==
  CASE outcome = "true" -> "callbackTrue"
    [] outcome = "false" -> "callbackFalse"
    [] outcome = "throws" -> "callbackThrows"

\* an assistance request that takes a throwing callback for consent
requestUserAssistanceThrowGrants(outcome) == outcome # "false"

\* requestUserAssistance with a callback set: what the callback resolves
\* to, and false when it throws
requestUserAssistance(outcome) == outcome = "true"

\* evaluateRisk returns; a HIGH assessment that requires confirmation goes
\* to requestUserAssistance, which answers false at once without a callback
RiskAssessed(reply) ==
  /\ actPc = "risk"
  /\ riskAssessment' = evaluateRisk(reply)
  /\ IF riskAssessment'.requires_confirmation
        /\ riskAssessment'.risk_level = "HIGH"
     THEN IF ~userAssistanceCallback
          THEN /\ error' = "User denied high-risk action execution"
               /\ actPc' = "done"
               /\ trail' = trail \o <<"riskAssessed", "denied">>
          ELSE /\ actPc' = "confirm"
               /\ trail' = Append(trail, "riskAssessed")
               /\ UNCHANGED error
     ELSE /\ actPc' = "limit"
          /\ trail' = Append(trail, "riskAssessed")
          /\ UNCHANGED error
  /\ UNCHANGED <<currentPageId, enabled, userAssistanceCallback, action>>
  /\ ActOnly

\* the confirmation callback settles
Confirmation(outcome) ==
  /\ actPc = "confirm"
  /\ IF requestUserAssistance(outcome)
     THEN /\ actPc' = "limit"
          /\ trail' = trail \o <<CallbackEvent(outcome), "confirmed">>
          /\ UNCHANGED error
     ELSE /\ error' = "User denied high-risk action execution"
          /\ actPc' = "done"
          /\ trail' = trail \o <<CallbackEvent(outcome), "denied">>
  /\ UNCHANGED <<currentPageId, enabled, userAssistanceCallback, action,
                 riskAssessment>>
  /\ ActOnly

\* the PageActions method the switch of executeAction calls for a tool
OpOf(tool) ==
  CASE tool = "click_element" -> "click"
    [] tool = "type_text" -> "fill"
    [] tool = "scroll_page" -> "scroll"
    [] tool = "switch_to_page" -> "bringToFront"
    [] tool = "wait" -> "wait"
    [] tool = "screenshot" -> "screenshot"

\* (action.parameters.page_id || action.parameters.id)
SwitchTarget(parameters) ==
  IF Truthy(Param(parameters, "page_id"))
  THEN Param(parameters, "page_id")
  ELSE Param(parameters, "id")

\* the slot of the 'actions' rate limiter is granted: the switch on the tool
ActionSlotGranted ==
  /\ actPc = "limit"
  /\ LET tool == action.tool
     IN IF tool = "navigate_to"
        THEN /\ actPc' = "navLimit"
             /\ UNCHANGED <<error, trail>>
        ELSE IF tool = "switch_to_page"
                /\ ~Truthy(SwitchTarget(action.parameters))
        THEN /\ error' = "switch_to_page requires either page_id or id parameter"
             /\ actPc' = "catch"
             /\ UNCHANGED trail
        ELSE IF tool = "request_user_assistance"
        THEN IF userAssistanceCallback
             THEN /\ actPc' = "assist"
                  /\ UNCHANGED <<error, trail>>
             ELSE /\ error' = "User denied assistance request"
                  /\ actPc' = "catch"
                  /\ UNCHANGED trail
        ELSE IF tool = "goal_achieved"
        THEN /\ actPc' = "observe"
             /\ UNCHANGED <<error, trail>>
        ELSE IF tool \in {"click_element", "type_text", "scroll_page",
                          "switch_to_page", "wait", "screenshot"}
        THEN /\ actPc' = "op"
             /\ trail' = Append(trail, OpOf(tool))
             /\ UNCHANGED error
        ELSE /\ error' = "Unknown action tool"
             /\ actPc' = "catch"
             /\ UNCHANGED trail
  /\ UNCHANGED <<currentPageId, enabled, userAssistanceCallback, action,
                 riskAssessment>>
  /\ ActOnly

\* the slot of the 'navigation' rate limiter is granted: navigateTo
NavigationSlotGranted ==
  /\ actPc = "navLimit"
  /\ actPc' = "op"
  /\ trail' = Append(trail, "goto")
  /\ UNCHANGED <<currentPageId, enabled, userAssistanceCallback, action,
                 riskAssessment, error>>
  /\ ActOnly

\* the tab ids the registry hands to the agent
AgentTabs == {1, 2}

\* the PageActions call returns; switch_to_page makes its target the
\* current page, navigate_to the tab navigateTo returns if it returns one
\* (newTab: the id of the tab a navigation with new_tab opens)
OperationReturns(newTab) ==
  /\ actPc = "op"
  /\ actPc' = "observe"
  /\ currentPageId' =
       IF action.tool = "switch_to_page"
       THEN SwitchTarget(action.parameters).n
       ELSE IF action.tool = "navigate_to"
               /\ Truthy(Param(action.parameters, "new_tab"))
            THEN newTab
            ELSE currentPageId
  /\ UNCHANGED <<enabled, userAssistanceCallback, action, riskAssessment,
                 error, trail>>
  /\ ActOnly

\* the PageActions call throws
OperationThrows ==
  /\ actPc = "op"
  /\ actPc' = "catch"
  /\ error' = "operation failed"
  /\ UNCHANGED <<currentPageId, enabled, userAssistanceCallback, action,
                 riskAssessment, trail>>
  /\ ActOnly

\* the callback of a request_user_assistance action settles
Assistance(outcome) ==
  /\ actPc = "assist"
  /\ IF requestUserAssistance(outcome)
     THEN /\ actPc' = "observe"
          /\ UNCHANGED error
     ELSE /\ actPc' = "catch"
          /\ error' = "User denied assistance request"
  /\ UNCHANGED <<currentPageId, enabled, userAssistanceCallback, action,
                 riskAssessment, trail>>
  /\ ActOnly

\* generateObservation, analyzePageHealth, updateSimpleLoopDetection: the
\* call returns the observation
Observe ==
  /\ actPc = "observe"
  /\ actPc' = "done"
  /\ trail' = trail \o <<"getPageInfo", "getTabsInfo", "scan">>
  /\ UNCHANGED <<currentPageId, enabled, userAssistanceCallback, action,
                 riskAssessment, error>>
  /\ ActOnly

\* the catch block of executeAction: the error observation, then rethrow
Catch ==
  /\ actPc = "catch"
  /\ actPc' = "done"
  /\ trail' = trail \o <<"getPageInfo", "getTabsInfo">>
  /\ UNCHANGED <<currentPageId, enabled, userAssistanceCallback, action,
                 riskAssessment, error>>
  /\ ActOnly

\* executeTask takes the result or the error and goes on to its next step
Return ==
  /\ actPc = "done"
  /\ actPc' = "idle"
  /\ action' = NoAction
  /\ riskAssessment' = NoAssessment
  /\ error' = ""
  /\ trail' = <<>>
  /\ UNCHANGED <<currentPageId, enabled, userAssistanceCallback>>
  /\ ActOnly

\* ------------------------------------------------------------------------
\* Specification of the action pipeline
\* ------------------------------------------------------------------------
InitAct ==
  /\ InitActVars
  /\ InitTabVars
  /\ InitScanVars
  /\ InitRiskVars
  /\ InitPageVars /\ InitFsVars /\ InitToon
  /\ InitLoopVars
  /\ InitViewVars
  /\ InitUtilVars

NextAct ==
  \/ Initialize
  \/ SetUserAssistanceCallback
  \/ \E b \in BOOLEAN : SetEnabled(b)
  \/ ExecuteAction
  \/ BuildSecurityContext
  \/ \E reply \in ClassifierReplies : RiskAssessed(reply)
  \/ \E outcome \in CallbackOutcomes : Confirmation(outcome)
  \/ ActionSlotGranted
  \/ NavigationSlotGranted
  \/ \E newTab \in AgentTabs : OperationReturns(newTab)
  \/ OperationThrows
  \/ \E outcome \in CallbackOutcomes : Assistance(outcome)
  \/ Observe
  \/ Catch
  \/ Return

SpecAct == InitAct /\ [][NextAct]_vars

\* ------------------------------------------------------------------------
\* Properties of the action pipeline
\* ------------------------------------------------------------------------
Before(what, i) == \E j \in 1..(i - 1) : trail[j] = what

\* C10: a browser-side operation of the requested action (click, fill,
\* goto, scroll, bringToFront, wait, screenshot) is performed only after
\* parameter validation succeeded and the block check and the risk
\* assessment completed; a request rejected by validation performs none.
C10_ChecksBeforeOperation ==
  /\ \A i \in 1..Len(trail) :
       trail[i] \in ActionOps =>
         /\ Before("validated", i)
         /\ Before("blockChecked", i)
         /\ Before("riskAssessed", i)
  /\ Before("rejected", Len(trail) + 1) =>
       \A i \in 1..Len(trail) : trail[i] \notin ActionOps

\* a request has passed validation, block check, risk assessment and the
\* user's confirmation, and its browser operation has been performed
C10_Witness ==
  /\ actPc = "done"
  /\ error = ""
  /\ Before("confirmed", Len(trail) + 1)
  /\ \E i \in 1..Len(trail) : trail[i] \in ActionOps

NoOperation == \A i \in 1..Len(trail) : trail[i] \notin ActionOps

\* the request matches the fixed denylist: a blocked tool name, or one of
\* javascript:, data:, vbscript:, file://, ftp:// in its parameters
OnDenylist(a) ==
  \/ a.tool \in Blocklist
  \/ \E pattern \in BlockedParamPatterns :
       \E i \in 1..Len(a.parameters) :
         Includes(LowerAll(a.parameters[i].value.s), pattern)

\* C11 as stated: a request on the denylist, made by an agent that has an
\* active page, ends with the 'blocked by security policy' error.
C11_AlwaysBlockedError ==
  (actPc = "done" /\ currentPageId # NULL /\ OnDenylist(action))
    => error = "Action blocked by security policy"

\* C11 amended: a request on the denylist performs no browser operation of
\* the action; once it has passed the active-page test and parameter
\* validation it ends, before any risk assessment and whether or not risk
\* evaluation is enabled, with the 'blocked by security policy' error.
C11_DenylistNeverExecuted ==
  OnDenylist(action) =>
    /\ NoOperation
    /\ ~Before("riskAssessed", Len(trail) + 1)
    /\ actPc \in {"context", "done"}
    /\ (actPc = "done" /\ Before("validated", Len(trail) + 1))
         => error = "Action blocked by security policy"

\* a valid request whose text holds data: was blocked while risk evaluation
\* was disabled
C11_Witness ==
  /\ actPc = "done"
  /\ ~enabled
  /\ action.tool = "type_text"
  /\ OnDenylist(action)
  /\ error = "Action blocked by security policy"

HighNeedsConfirmation ==
  riskAssessment.risk_level = "HIGH" /\ riskAssessment.requires_confirmation

\* C12: when the assessment is HIGH with requires_confirmation, a browser
\* operation of the action is performed only after the confirmation
\* callback returned true; without a callback, or when it returns false or
\* throws, the action is aborted with the 'User denied high-risk action
\* execution' error and performs no browser operation.
C12_HighRiskNeedsConsent ==
  HighNeedsConfirmation =>
    /\ \A i \in 1..Len(trail) :
         trail[i] \in ActionOps => Before("callbackTrue", i)
    /\ (\/ ~userAssistanceCallback
        \/ Before("callbackFalse", Len(trail) + 1)
        \/ Before("callbackThrows", Len(trail) + 1))
         => /\ actPc = "done"
            /\ error = "User denied high-risk action execution"
            /\ NoOperation

\* a HIGH assessment was confirmed by the callback and the operation of
\* the action was then performed
C12_Witness ==
  /\ HighNeedsConfirmation
  /\ \E i \in 1..Len(trail) :
       trail[i] \in ActionOps /\ Before("callbackTrue", i)

\* ------------------------------------------------------------------------
\* Specification of RiskEvaluator.evaluateRisk taken alone
\* ------------------------------------------------------------------------
\* what a step of evaluateRisk taken alone leaves alone
RiskOnly ==
  UNCHANGED <<tabVars, scanVars, pageVars, fsVars, toon, loopVars, viewVars, utilVars, currentPageId,
              userAssistanceCallback, action, actPc, error, trail>>

\* evaluateRisk(context) is called and the classifier call produces reply
EvaluateRiskCalled(reply) ==
  /\ classifierReply = NoReply
  /\ classifierReply' = reply
  /\ riskAssessment' = IF ~enabled THEN LowRisk ELSE evaluateRisk(reply)
  /\ UNCHANGED <<enabled, validation>>
  /\ RiskOnly

\* the caller takes the assessment
EvaluateRiskReturned ==
  /\ classifierReply # NoReply
  /\ classifierReply' = NoReply
  /\ riskAssessment' = NoAssessment
  /\ UNCHANGED <<enabled, validation>>
  /\ RiskOnly

\* RiskEvaluator.setEnabled between two evaluations
RiskSetEnabled(b) ==
  /\ classifierReply = NoReply
  /\ enabled # b
  /\ enabled' = b
  /\ UNCHANGED <<classifierReply, riskAssessment, validation>>
  /\ RiskOnly

InitRisk ==
  /\ InitActVars
  /\ InitTabVars
  /\ InitScanVars
  /\ InitRiskVars
  /\ InitPageVars /\ InitFsVars /\ InitToon
  /\ InitLoopVars
  /\ InitViewVars
  /\ InitUtilVars

NextRisk ==
  \/ \E reply \in ClassifierReplies : EvaluateRiskCalled(reply)
  \/ EvaluateRiskReturned
  \/ \E b \in BOOLEAN : RiskSetEnabled(b)

SpecRisk == InitRisk /\ [][NextRisk]_vars

\* the classifier call threw, or its reply holds no assessment that parses
ClassifierFailed(reply) ==
  \/ reply.call = "throws"
  \/ /\ reply.call = "returns"
     /\ \/ reply.type # "text"
        \/ reply.json # "object"
        \/ reply.risk_level \notin {"LOW", "MEDIUM", "HIGH"}
        \/ reply.reasoning = ""
        \/ reply.requires_confirmation = "undefined"

\* C13: with risk evaluation enabled, when the classifier call throws or
\* its reply cannot be parsed, evaluateRisk returns HIGH with
\* requires_confirmation = true, never LOW or MEDIUM.
C13_FailsClosed ==
  (enabled /\ ClassifierFailed(classifierReply)) =>
    /\ riskAssessment.risk_level = "HIGH"
    /\ riskAssessment.requires_confirmation

\* evaluateRisk has returned after a classifier call that threw
C13_Witness ==
  /\ enabled
  /\ classifierReply = [call |-> "throws"]
  /\ riskAssessment = HighRisk

\* ------------------------------------------------------------------------
\* Specification of WebAgent.validateParameters taken alone
\* ------------------------------------------------------------------------
\* what a step of validateParameters taken alone leaves alone
ValidateOnly ==
  UNCHANGED <<tabVars, scanVars, pageVars, fsVars, toon, loopVars, viewVars, utilVars, currentPageId, enabled,
              userAssistanceCallback, riskAssessment, actPc, error, trail,
              classifierReply>>

\* validateParameters(a.tool, a.parameters) is called and throws or returns
ValidateCalled(a) ==
  /\ validation = NoValidation
  /\ action' = a
  /\ validation' = validateParameters(a.tool, a.parameters)
  /\ ValidateOnly

\* the caller takes the outcome
ValidateReturned ==
  /\ validation # NoValidation
  /\ action' = NoAction
  /\ validation' = NoValidation
  /\ ValidateOnly

InitValidate ==
  /\ InitActVars
  /\ InitTabVars
  /\ InitScanVars
  /\ InitRiskVars
  /\ InitPageVars /\ InitFsVars /\ InitToon
  /\ InitLoopVars
  /\ InitViewVars
  /\ InitUtilVars

NextValidate ==
  \/ \E a \in Actions : ValidateCalled(a)
  \/ ValidateReturned

SpecValidate == InitValidate /\ [][NextValidate]_vars

Unknown(e) == e.key \notin ValidatorKeys

Refused(e) == ~Unknown(e) /\ Validator(e.key, e.value) = Null

\* C14 as stated: a bag holding a key without a validator is rejected with
\* the unknown-parameter error, whatever the action name.
C14_UnknownKeyError ==
  (validation # NoValidation
   /\ \E i \in 1..Len(action.parameters) : Unknown(action.parameters[i]))
    => validation.error = "Unknown parameter"

\* C14 amended: a bag holding a key without a validator is rejected
\* whatever the action name, and nothing validated is returned; the error
\* is the unknown-parameter error unless an entry that precedes the first
\* such key is refused by its validator, and then it is the
\* invalid-parameter error.
C14_UnknownKeyRejected ==
  validation # NoValidation =>
    \A i \in 1..Len(action.parameters) :
      (/\ Unknown(action.parameters[i])
       /\ \A j \in 1..(i - 1) : ~Unknown(action.parameters[j]))
        => /\ validation.validated = <<>>
           /\ validation.error =
                IF \E j \in 1..(i - 1) : Refused(action.parameters[j])
                THEN "Invalid parameter" ELSE "Unknown parameter"

\* a request of an unrecognized action name whose bag holds a valid
\* parameter followed by one without a validator was rejected
C14_Witness ==
  /\ validation.error = "Unknown parameter"
  /\ action.tool = "hover"
  /\ Len(action.parameters) = 2
  /\ Unknown(action.parameters[2])

\* a parameter the action requires is not among the keys of the bag
MissingRequired(a) ==
  \E r \in 1..Len(requiredParams(a.tool)) :
    requiredParams(a.tool)[r] \notin Keys(a.parameters)

\* C15: a request that leaves out a parameter its action requires is
\* rejected with the missing-parameter error, also when another parameter
\* it supplies is invalid or unknown.
C15_MissingRequiredFirst ==
  (validation # NoValidation /\ MissingRequired(action))
    => validation.error = "Required parameter missing"

\* ------------------------------------------------------------------------
\* Specification of the url validator of WebAgent.validateParameters
\* ------------------------------------------------------------------------
\* hostnames, as their labels
Hostnames ==
  {<<"localhost">>, <<"LOCALHOST">>,
   <<"127", "0", "0", "1">>, <<"10", "0", "0", "5">>,
   <<"192", "168", "1", "1">>, <<"172", "16", "0", "1">>,
   <<"172", "32", "0", "1">>, <<"[::1]">>,
   <<"printer", "local">>, <<"example", "com">>, <<"10", "example", "com">>}

UrlPaths == {<<>>, <<"/">>, <<"/", "page">>}

\* the values the url parameter is given
UrlValues ==
  {Str(<<scheme, "//">> \o hostname \o path) :
     scheme \in Schemes, hostname \in Hostnames, path \in UrlPaths}
  \cup {Str(<<"javascript:", "alert(1)">>), Str(<<"example", "com">>),
        Str(<<>>), Num(1), Null}

\* validateParameters is called for a navigation to the value v
ValidateUrlCalled(v) ==
  /\ validation = NoValidation
  /\ action' = [tool |-> "navigate_to",
                parameters |-> <<[key |-> "url", value |-> v]>>]
  /\ validation' = validateParameters("navigate_to", action'.parameters)
  /\ ValidateOnly

NextUrl ==
  \/ \E v \in UrlValues : ValidateUrlCalled(v)
  \/ ValidateReturned

SpecUrl == InitValidate /\ [][NextUrl]_vars

\* the host is the machine itself: the name localhost, 127.0.0.0/8, or ::1
Loopback(hostname) ==
  \/ hostname = <<"localhost">>
  \/ (Len(hostname) = 4 /\ hostname[1] = "127")
  \/ hostname = <<"[::1]">>

\* the host is in one of the private IPv4 ranges 10.0.0.0/8,
\* 172.16.0.0/12, 192.168.0.0/16
PrivateNetwork(hostname) ==
  /\ Len(hostname) = 4
  /\ \/ hostname[1] = "10"
     \/ (hostname[1] = "172" /\ hostname[2] \in {"16", "20", "31"})
     \/ (hostname[1] = "192" /\ hostname[2] = "168")

EndsDotLocal(hostname) ==
  Len(hostname) >= 2 /\ hostname[Len(hostname)] = "local"

\* C16: a url value is accepted only if it parses, its scheme is http or
\* https, and its hostname is neither loopback, nor in a private network,
\* nor ending in .local.
C16_UrlGuard ==
  (validation # NoValidation /\ validation.error = "") =>
    LET v == action.parameters[1].value
        hostname == HostLabels(v.s, 3)
    IN /\ v.t = "string"
       /\ ParsesAsUrl(v.s)
       /\ v.s[1] \in WebSchemes
       /\ ~Loopback(hostname)
       /\ ~PrivateNetwork(hostname)
       /\ ~EndsDotLocal(hostname)

\* ------------------------------------------------------------------------
\* Specification of PageActions.clickElement and PageActions.typeText on
\* one element; each action is one run between two awaits
\* ------------------------------------------------------------------------
\* what a step of a PageActions call leaves alone
PageOnly == UNCHANGED <<tabVars, scanVars, actVars, riskVars, fsVars, toon, loopVars, viewVars, utilVars>>

ElementTags == {"input", "textarea", "button", "a", "select", "div"}

\* values of the type property of an input element
InputTypes ==
  {"", "text", "email", "button", "submit", "reset", "image", "file",
   "checkbox", "radio"}

\* values of the inputmode attribute ("" when absent)
InputModes == {"", "numeric"}

\* values of the role attribute ("" when absent)
RoleAttributes == {"", "button", "combobox"}

\* the elements a page may hold under the id the call is given
Elements ==
  {e \in [tag : ElementTags, type : InputTypes, inputmode : InputModes,
          role : RoleAttributes, shown : BOOLEAN, inView : BOOLEAN,
          reachable : BOOLEAN] :
     /\ e.tag # "input" => (e.type = "" /\ e.inputmode = "")
     /\ e.tag \notin {"input", "div"} => e.role = ""
     /\ e.inView => e.reachable}

\* getElementRole of the tagger
getElementRole(tagName) == IF tagName = "a" THEN "link" ELSE tagName

\* getInputType of the tagger: inputmode before type; "" is undefined
getInputType(element) ==
  CASE element.tag = "input" ->
         IF element.inputmode # "" THEN element.inputmode
         ELSE IF element.type # "" THEN element.type ELSE "text"
    [] element.tag = "textarea" -> "textarea"
    [] element.tag = "select" -> "select"
    [] element.tag = "button" -> "button"
    [] OTHER -> ""

NoDetails == [role |-> "", input_type |-> ""]

\* ElementTagger.getElementDetails: the descriptor a fresh scan returns for
\* the element, null when the scan skips it as hidden
getElementDetails(element) ==
  IF ~element.shown THEN NoDetails
  ELSE [role |-> IF element.role # "" THEN element.role
                 ELSE getElementRole(element.tag),
        input_type |-> getInputType(element)]

supportedRoles == {"input", "textarea"}

unsupportedInputTypes ==
  {"button", "submit", "reset", "image", "file", "checkbox", "radio"}

\* the checks of typeText with the input_type check left out
typeTextRefusalRoleOnly(elementDetails) ==
  IF elementDetails = NoDetails THEN "Element not found"
  ELSE IF elementDetails.role \notin supportedRoles
  THEN "role does not support text input"
  ELSE ""

\* the checks typeText makes on the descriptor: the error it throws, or ""
typeTextRefusal(elementDetails) ==
  IF elementDetails = NoDetails THEN "Element not found"
  ELSE IF elementDetails.role \notin supportedRoles
  THEN "role does not support text input"
  ELSE IF /\ elementDetails.input_type # ""
          /\ elementDetails.input_type \in unsupportedInputTypes
  THEN "input_type doesn't support text input"
  ELSE ""

\* ElementTagger.isElementInteractable: rendered and inside the viewport
isElementInteractable(element) == element.shown /\ element.inView

\* ElementTagger.scrollElementIntoView: the element after scrollIntoView
scrollElementIntoView(element) ==
  IF element.shown /\ element.reachable
  THEN [element EXCEPT !.inView = TRUE] ELSE element

Checked(r) == IF r THEN "check:true" ELSE "check:false"

\* page.fill refuses the input types that hold no text
Fillable(element) ==
  \/ element.tag = "textarea"
  \/ element.tag = "input" /\ element.type \notin unsupportedInputTypes

PageThrows(msg) ==
  /\ paCall' = [paCall EXCEPT !.pc = "done"]
  /\ paError' = msg

PageGoes(pc) ==
  /\ paCall' = [paCall EXCEPT !.pc = pc]
  /\ UNCHANGED paError

\* typeText(pageId, elementId, text) up to the first await
TypeTextCalled(pageFound) ==
  /\ paCall.pc = "idle"
  /\ paTrail' = <<>>
  /\ IF pageFound
     THEN paCall' = [op |-> "typeText", pc |-> "details"] /\ paError' = ""
     ELSE paCall' = [op |-> "typeText", pc |-> "done"]
          /\ paError' = "Page not found"
  /\ UNCHANGED elem
  /\ PageOnly

\* getElementDetails has returned: the checks on role and input_type
TypeTextValidate ==
  /\ paCall.op = "typeText" /\ paCall.pc = "details"
  /\ LET refusal == typeTextRefusal(getElementDetails(elem))
     IN IF refusal # "" THEN PageThrows(refusal) ELSE PageGoes("scroll")
  /\ UNCHANGED <<elem, paTrail>>
  /\ PageOnly

TypeTextScroll ==
  /\ paCall.op = "typeText" /\ paCall.pc = "scroll"
  /\ elem' = scrollElementIntoView(elem)
  /\ paTrail' = Append(paTrail, "scroll")
  /\ PageGoes("check")
  /\ PageOnly

TypeTextCheck ==
  /\ paCall.op = "typeText" /\ paCall.pc = "check"
  /\ paTrail' = Append(paTrail, Checked(isElementInteractable(elem)))
  /\ IF isElementInteractable(elem) THEN PageGoes("focus")
     ELSE PageThrows("Element is not interactable")
  /\ UNCHANGED elem
  /\ PageOnly

TypeTextFocus ==
  /\ paCall.op = "typeText" /\ paCall.pc = "focus"
  /\ paTrail' = Append(paTrail, "focus")
  /\ PageGoes("fill")
  /\ UNCHANGED elem
  /\ PageOnly

TypeTextFill ==
  /\ paCall.op = "typeText" /\ paCall.pc = "fill"
  /\ paTrail' = Append(paTrail, "fill")
  /\ IF Fillable(elem) THEN PageGoes("type")
     ELSE PageThrows("Input of this type cannot be filled")
  /\ UNCHANGED elem
  /\ PageOnly

TypeTextType ==
  /\ paCall.op = "typeText" /\ paCall.pc = "type"
  /\ paTrail' = Append(paTrail, "type")
  /\ PageGoes("done")
  /\ UNCHANGED elem
  /\ PageOnly

\* clickElement(pageId, elementId) up to the first await
ClickElementCalled(pageFound) ==
  /\ paCall.pc = "idle"
  /\ paTrail' = <<>>
  /\ IF pageFound
     THEN paCall' = [op |-> "clickElement", pc |-> "check"] /\ paError' = ""
     ELSE paCall' = [op |-> "clickElement", pc |-> "done"]
          /\ paError' = "Page not found"
  /\ UNCHANGED elem
  /\ PageOnly

\* the first isElementInteractable has returned
ClickCheck ==
  /\ paCall.op = "clickElement" /\ paCall.pc = "check"
  /\ paTrail' = Append(paTrail, Checked(isElementInteractable(elem)))
  /\ IF isElementInteractable(elem) THEN PageGoes("click")
     ELSE PageGoes("scroll")
  /\ UNCHANGED elem
  /\ PageOnly

ClickScroll ==
  /\ paCall.op = "clickElement" /\ paCall.pc = "scroll"
  /\ elem' = scrollElementIntoView(elem)
  /\ paTrail' = Append(paTrail, "scroll")
  /\ PageGoes("recheck")
  /\ PageOnly

\* a second check that lets the click go ahead whatever it found
ClickRecheckLenient ==
  /\ paCall.op = "clickElement" /\ paCall.pc = "recheck"
  /\ paTrail' = Append(paTrail, Checked(isElementInteractable(elem)))
  /\ PageGoes("click")
  /\ UNCHANGED elem
  /\ PageOnly

\* the second isElementInteractable has returned
ClickRecheck ==
  /\ paCall.op = "clickElement" /\ paCall.pc = "recheck"
  /\ paTrail' = Append(paTrail, Checked(isElementInteractable(elem)))
  /\ IF isElementInteractable(elem) THEN PageGoes("click")
     ELSE PageThrows("Element is not interactable")
  /\ UNCHANGED elem
  /\ PageOnly

\* page.click on the element
ClickNative ==
  /\ paCall.op = "clickElement" /\ paCall.pc = "click"
  /\ paTrail' = Append(paTrail, "click")
  /\ PageGoes("done")
  /\ UNCHANGED elem
  /\ PageOnly

\* the operations clickElement and typeText ask of the browser
NativeOps == {"click", "focus", "fill", "type"}

\* a call that makes the rejected operation again
NativeRejectsRetry ==
  /\ paCall.pc \in NativeOps
  /\ paTrail' = Append(paTrail, paCall.pc)
  /\ UNCHANGED <<paCall, paError>>
  /\ UNCHANGED elem
  /\ PageOnly

\* the browser rejects the operation (a timeout, a detached element): the
\* catch block logs and rethrows
NativeRejects ==
  /\ paCall.pc \in NativeOps
  /\ paTrail' = Append(paTrail, paCall.pc)
  /\ PageThrows("Timeout")
  /\ UNCHANGED elem
  /\ PageOnly

\* the caller takes the outcome of the call
PageCallReturns ==
  /\ paCall.pc = "done"
  /\ paCall' = IdlePageCall
  /\ paTrail' = <<>>
  /\ paError' = ""
  /\ UNCHANGED elem
  /\ PageOnly

\* between two calls the page puts another element under the id
PageChanges(e) ==
  /\ paCall.pc = "idle"
  /\ e # elem
  /\ elem' = e
  /\ UNCHANGED <<paCall, paTrail, paError>>
  /\ PageOnly

\* the page or the user scrolls, at any time: the element leaves the
\* viewport or comes back into it
ViewportMoves ==
  /\ elem.reachable
  /\ elem' = [elem EXCEPT !.inView = ~elem.inView]
  /\ UNCHANGED <<paCall, paTrail, paError>>
  /\ PageOnly

InitPage ==
  /\ InitActVars
  /\ InitTabVars
  /\ InitScanVars
  /\ InitRiskVars
  /\ InitPageVars /\ InitFsVars /\ InitToon
  /\ InitLoopVars
  /\ InitViewVars
  /\ InitUtilVars

NextPage ==
  \/ \E pageFound \in BOOLEAN : TypeTextCalled(pageFound)
  \/ TypeTextValidate
  \/ TypeTextScroll
  \/ TypeTextCheck
  \/ TypeTextFocus
  \/ TypeTextFill
  \/ TypeTextType
  \/ \E pageFound \in BOOLEAN : ClickElementCalled(pageFound)
  \/ ClickCheck
  \/ ClickScroll
  \/ ClickRecheck
  \/ ClickNative
  \/ NativeRejects
  \/ PageCallReturns
  \/ \E e \in Elements : PageChanges(e)
  \/ ViewportMoves

SpecPage == InitPage /\ [][NextPage]_vars

Count(s, x) == Cardinality({i \in 1..Len(s) : s[i] = x})

\* the call touched the field: a focus, fill or type operation was made
Touched == \E i \in 1..Len(paTrail) : paTrail[i] \in {"focus", "fill", "type"}

\* the descriptor of the element says it takes no text
NotForText(elementDetails) ==
  \/ elementDetails.role \notin {"input", "textarea"}
  \/ elementDetails.input_type \in
       {"button", "submit", "reset", "image", "file", "checkbox", "radio"}

C18_ClickGating ==
  paCall.op = "clickElement" =>
    /\ Count(paTrail, "scroll") <= 1
    /\ Count(paTrail, "check:true") + Count(paTrail, "check:false") <= 2
    /\ Count(paTrail, "click") > 0 =>
         paTrail \in {<<"check:true", "click">>,
                      <<"check:false", "scroll", "check:true", "click">>}
    /\ paError = "Element is not interactable" =>
         paTrail = <<"check:false", "scroll", "check:false">>
    /\ (paCall.pc = "done"
        /\ paTrail = <<"check:false", "scroll", "check:false">>)
         => paError = "Element is not interactable"

\* a click that went ahead on the re-check after the scroll
C18_Witness ==
  /\ paCall.op = "clickElement" /\ paCall.pc = "done"
  /\ paTrail = <<"check:false", "scroll", "check:true", "click">>
  /\ paError = ""

\* ------------------------------------------------------------------------
\* Specification of navigate_to with new_tab = true: PageActions.navigateTo
\* over the tab registry, and the agent taking the id it returns
\* ------------------------------------------------------------------------
\* what a step of navigateTo leaves alone besides the registry and the
\* agent's current page
NavOnly ==
  UNCHANGED <<scanVars, riskVars, pageVars, fsVars, toon, loopVars, viewVars, utilVars, enabled, userAssistanceCallback,
              action, riskAssessment, actPc, error, trail>>

\* WebAgent.initialize: this.currentPageId = await createTab(), the
\* continuation of the createTab call that has just returned
InitializeAgent ==
  /\ currentPageId = NULL
  /\ obs.op = "registerPage" /\ obs.caller = "createTab"
  /\ currentPageId' = obs.ret
  /\ obs' = NoObs
  /\ UNCHANGED <<ctxPages, opened, pageEvents, pages, nextPageId,
                 activePageId, lastActivatedPageId, call, assigned>>
  /\ NavOnly

\* the call once createTab has returned newPageId: navigate(newPageId, url)
\* looks the page up and awaits page.goto
NavigateCall(r) ==
  [op |-> "navigateTo", pc |-> "goto", id |-> r.ret,
   page |-> getPage(r.pages, r.ret)]

\* navigateTo(pageId, url, true), createTab finding an unregistered page
NavigateToReuse ==
  /\ call = IdleCall
  /\ currentPageId # NULL
  /\ Len(unregisteredPages) > 0
  /\ DoRegister(unregisteredPages[1], "navigateTo")
  /\ call' = NavigateCall(registerPage(pages, nextPageId,
                                       unregisteredPages[1]))
  /\ UNCHANGED <<ctxPages, opened, pageEvents, activePageId,
                 lastActivatedPageId, currentPageId>>
  /\ NavOnly

\* navigateTo(pageId, url, true), createTab awaiting context.newPage()
NavigateToNewPage ==
  /\ call = IdleCall
  /\ currentPageId # NULL
  /\ Len(unregisteredPages) = 0
  /\ opened < NumHandles
  /\ opened' = opened + 1
  /\ ctxPages' = Append(ctxPages, opened + 1)
  /\ pageEvents' = pageEvents \cup {opened + 1}
  /\ call' = [op |-> "navigateTo", pc |-> "newPage", page |-> opened + 1]
  /\ obs' = NoObs
  /\ UNCHANGED <<pages, nextPageId, activePageId, lastActivatedPageId,
                 assigned, currentPageId>>
  /\ NavOnly

\* newPage() resolved: createTab registers the page and returns its id
NavigateToRegistered ==
  /\ call.op = "navigateTo" /\ call.pc = "newPage"
  /\ call.page \notin pageEvents
  /\ DoRegister(call.page, "navigateTo")
  /\ call' = NavigateCall(registerPage(pages, nextPageId, call.page))
  /\ UNCHANGED <<ctxPages, opened, pageEvents, activePageId,
                 lastActivatedPageId, currentPageId>>
  /\ NavOnly

\* navigateTo throws: the catch of executeAction leaves currentPageId alone
NavigateFails(why) ==
  /\ call' = IdleCall
  /\ obs' = [op |-> "navigateTo", err |-> why, id |-> call.id,
             loaded |-> NULL]
  /\ UNCHANGED <<lastActivatedPageId, currentPageId>>

\* page.goto and the settle wait are over: they rejected (ok = FALSE, or the
\* page closed), or switchToTab(newPageId) looks the page up and awaits
\* page.bringToFront()
NavigateToLoaded(ok) ==
  /\ call.op = "navigateTo" /\ call.pc = "goto"
  /\ IF ~ok \/ call.page \notin Range(ctxPages)
     THEN NavigateFails("goto")
     ELSE IF getPage(pages, call.id) = NULL
     THEN NavigateFails("not found")
     ELSE /\ call' = [op |-> "navigateTo", pc |-> "front", id |-> call.id,
                      page |-> getPage(pages, call.id),
                      loaded |-> call.page]
          /\ obs' = NoObs
          /\ UNCHANGED <<lastActivatedPageId, currentPageId>>
  /\ UNCHANGED <<ctxPages, opened, pageEvents, pages, nextPageId,
                 activePageId, assigned>>
  /\ NavOnly

\* a navigateTo that returns the new id without switching to the tab
NavigateToFrontNoSwitch ==
  /\ call.op = "navigateTo" /\ call.pc = "front"
  /\ IF call.page \notin Range(ctxPages)
     THEN NavigateFails("closed")
     ELSE /\ call' = IdleCall
          /\ obs' = [op |-> "navigateTo", err |-> "", id |-> call.id,
                     loaded |-> call.loaded]
          /\ currentPageId' = call.id
          /\ UNCHANGED lastActivatedPageId
  /\ UNCHANGED <<ctxPages, opened, pageEvents, pages, nextPageId,
                 activePageId, assigned>>
  /\ NavOnly

\* bringToFront() rejected (the page closed), or it resolved: switchToTab
\* records the tab, navigateTo returns newPageId and executeAction stores it
NavigateToFront ==
  /\ call.op = "navigateTo" /\ call.pc = "front"
  /\ IF call.page \notin Range(ctxPages)
     THEN NavigateFails("closed")
     ELSE /\ call' = IdleCall
          /\ obs' = [op |-> "navigateTo", err |-> "", id |-> call.id,
                     loaded |-> call.loaded]
          /\ currentPageId' = call.id
          /\ lastActivatedPageId' = call.id
  /\ UNCHANGED <<ctxPages, opened, pageEvents, pages, nextPageId,
                 activePageId, assigned>>
  /\ NavOnly

NextNav ==
  \/ NextTabs
  \/ InitializeAgent
  \/ NavigateToReuse
  \/ NavigateToNewPage
  \/ NavigateToRegistered
  \/ \E ok \in BOOLEAN : NavigateToLoaded(ok)
  \/ NavigateToFront

SpecNav == InitTabs /\ [][NextNav]_vars

\* C19: when navigate_to with new_tab = true has succeeded, the id returned
\* is the id of the tab that loaded the URL, that tab is open, the registry's
\* choice of the active tab is that tab, and the agent's current page id is
\* that id.
C19_NewTabBecomesCurrent ==
  (obs.op = "navigateTo" /\ obs.err = "") =>
    /\ getPage(pages, obs.id) = obs.loaded
    /\ Live(obs.id)
    /\ Strategy1(pages, lastActivatedPageId) = obs.id
    /\ currentPageId = obs.id

\* a navigation in a new tab succeeded while an older tab was registered,
\* and the agent moved from the older tab to the new one
C19_Witness ==
  /\ obs.op = "navigateTo" /\ obs.err = ""
  /\ Len(pages) = 2
  /\ obs.id # FirstKey(pages)
  /\ currentPageId = obs.id

\* ------------------------------------------------------------------------
\* Specification of the element scanner on a page that also holds elements
\* with position fixed
\* ------------------------------------------------------------------------
\* the slots that may hold an element with position fixed
FixedSlots == {<<0, 1>>}

NextHidden ==
  \/ tagInteractiveElements
  \/ \E s \in Slots, vis \in BOOLEAN : ElementAppears(s, vis)
  \/ \E s \in FixedSlots, vis \in BOOLEAN : FixedElementAppears(s, vis)
  \/ \E s \in Slots : ElementDisappears(s)
  \/ \E s \in Slots : ElementToggles(s)
  \/ \E f \in FirstFrame, origin \in {"same", "cross"} : FrameLoads(f, origin)
  \/ Navigation

SpecHidden == InitScan /\ [][NextHidden]_vars

\* C20: a scan neither returns nor stamps an element that is hidden when it
\* runs (display none, visibility hidden, opacity 0, hidden attribute, empty
\* bounding box), and it returns every element of the documents it reaches
\* that is visible when it runs, so that an element that became visible is
\* returned by the first scan after that.
C20_HiddenOutVisibleIn ==
  [][ scanObs' # 0 =>
        \A s \in Slots :
          /\ (dom[s].present /\ ~dom[s].visible)
               => /\ lastScan'[s] = 0
                  /\ dom'[s].tag \in {0, dom[s].tag}
          /\ (dom[s].present /\ dom[s].visible /\ Reachable(s[1]))
               => lastScan'[s] # 0
    ]_vars

\* ------------------------------------------------------------------------
\* Specification of the element scanner on a page with two iframes, each
\* of which may hold a same-origin or a cross-origin document
\* ------------------------------------------------------------------------
\* the document of a cross-origin iframe gets an interactive element; the
\* scripts of the main document cannot see it
ForeignElementAppears(s, vis) ==
  /\ s[1] \in FrameDocs
  /\ frames[s[1]] = "cross"
  /\ ~dom[s].present
  /\ dom' = [dom EXCEPT ![s] = [present |-> TRUE, visible |-> vis,
                                fixed |-> FALSE, tag |-> 0]]
  /\ since' = Mutated
  /\ scanObs' = 0
  /\ UNCHANGED <<frames, nextId, lastScan>>
  /\ ScanOnly

NextFrames ==
  \/ tagInteractiveElements
  \/ \E s \in Slots, vis \in BOOLEAN : ElementAppears(s, vis)
  \/ \E s \in Slots, vis \in BOOLEAN : ForeignElementAppears(s, vis)
  \/ \E s \in Slots : ElementDisappears(s)
  \/ \E f \in TopFrames, origin \in {"same", "cross"} : FrameLoads(f, origin)

SpecFrames == InitScan /\ [][NextFrames]_vars

CrossOrigin(d) == d \in FrameDocs /\ frames[d] = "cross"

\* C21: a scan of a page that holds a cross-origin iframe returns the
\* visible elements of the main document and of every accessible iframe
\* under distinct ids; the elements of the cross-origin iframe are neither
\* returned nor stamped, and every id the scan consumed went to an element
\* it returned.
C21_CrossOriginSkipped ==
  [][ (scanObs' # 0 /\ \E d \in FrameDocs : CrossOrigin(d)) =>
        /\ \A s \in Slots :
             /\ CrossOrigin(s[1])
                  => (lastScan'[s] = 0 /\ dom'[s].tag = dom[s].tag)
             /\ (Reachable(s[1]) /\ dom[s].present /\ dom[s].visible)
                  => lastScan'[s] # 0
        /\ \A s, t \in Returned(lastScan') :
             s # t => lastScan'[s] # lastScan'[t]
        /\ nextId' - 1 <= Cardinality(Returned(lastScan'))
    ]_vars

\* C22: switchToTab, closeTab and navigate called with an id that is not in
\* the table throw the not-found error and leave the table, the next-id
\* counter, the active-tab pointer and the last-activated pointer as they
\* were.
C22_UnknownIdNotFound ==
  [][ (/\ call = IdleCall
       /\ obs'.op \in {"switchToTab", "closeTab", "navigate"}
       /\ getPage(pages, obs'.id) = NULL)
        => /\ obs'.err = "not found"
           /\ pages' = pages
           /\ nextPageId' = nextPageId
           /\ activePageId' = activePageId
           /\ lastActivatedPageId' = lastActivatedPageId
    ]_vars

\* switchToTab was refused for an unknown id while tabs were registered and
\* one of them had been activated
C22_Witness ==
  /\ obs.op = "switchToTab"
  /\ obs.err = "not found"
  /\ getPage(pages, obs.id) = NULL
  /\ pages # <<>>
  /\ lastActivatedPageId # NULL
  /\ activePageId # NULL

\* C23: the tab getTabsInfo marks active is the tab last activated through
\* switchToTab if it is registered, else the first registered tab that
\* reports focus, else the first registered tab in the order of
\* context.pages(), else the first registered tab; and only a switchToTab
\* that succeeds changes which tab counts as last activated.
C23_ActivePriority ==
  [][ /\ lastActivatedPageId' # lastActivatedPageId
           => /\ obs'.op = "switchToTab"
              /\ obs'.err = ""
              /\ lastActivatedPageId' = obs'.id
      /\ obs'.op = "getTabsInfo"
           => IF Strategy1(pages, lastActivatedPageId) # NULL
              THEN activePageId' = Strategy1(pages, lastActivatedPageId)
              ELSE \/ /\ call.op = "getTabsInfo"
                      /\ call.stage = "focus"
                      /\ activePageId' = call.cur
                   \/ activePageId' = ActiveFallback(pages, ctxPages)
    ]_vars

\* C24: a createTab call made while the context holds a page that is not
\* registered registers the first such page, returns its id and opens no
\* page; a createTab call opens a page only when every page of the context
\* is registered.
C24_CreateTabReusesFirst ==
  [][ (/\ call = IdleCall
       /\ \/ call'.op = "createTab"
          \/ obs'.op = "registerPage" /\ obs'.caller = "createTab")
        => IF Len(unregisteredPages) > 0
           THEN /\ obs'.op = "registerPage"
                /\ obs'.page = unregisteredPages[1]
                /\ obs'.ret = IdOf(pages', unregisteredPages[1])
                /\ obs'.grew = 1
                /\ opened' = opened
                /\ ctxPages' = ctxPages
                /\ call' = IdleCall
           ELSE /\ call'.op = "createTab"
                /\ opened' = opened + 1
                /\ pages' = pages
    ]_vars

C24_Witness ==
  /\ call = IdleCall
  /\ obs.op = "registerPage"
  /\ obs.caller = "createTab"
  /\ obs.grew = 1
  /\ Len(unregisteredPages) > 0
  /\ obs.page < unregisteredPages[1]

\* ------------------------------------------------------------------------
\* BrowserManager.takeScreenshot(pageId, path) and sanitizeFilePath(path)
\*
\* A path is a sequence of directory segments, absolute or relative,
\* followed by a file name with an extension; a segment is kept as its
\* sequence of characters so that string operations act on characters.
\* ------------------------------------------------------------------------
ShotOnly ==
  UNCHANGED <<tabVars, scanVars, actVars, riskVars, pageVars, toon, loopVars, viewVars, utilVars>>

SegApp == <<"a", "p", "p">>
SegAppX == <<"a", "p", "p", "-", "x">>
SegOut == <<"o", "u", "t">>
SegUp == <<".", ".">>
SegShot == <<"s", "h", "o", "t">>

DirSegments == {SegApp, SegAppX, SegOut, SegUp}

\* directory parts of at most two segments
DirParts ==
  {<<>>} \cup {<<a>> : a \in DirSegments}
         \cup {<<a, b>> : a \in DirSegments, b \in DirSegments}

Extensions == {"", ".png", ".JPG", ".exe"}

PathArgs ==
  [given : {TRUE}, abs : BOOLEAN, dirs : DirParts, name : {SegShot},
   ext : Extensions]

\* process.cwd() is /app; the directories that exist
Cwd == <<SegApp>>
ExistingDirs == {<<>>, <<SegApp>>, <<SegApp, SegOut>>, <<SegAppX>>, <<SegOut>>}

\* path.resolve on the directory part: a relative path starts at cwd, ".."
\* drops the last segment, and the root is its own parent
RECURSIVE Normalize(_, _)
Normalize(base, segs) ==
  IF segs = <<>> THEN base
  ELSE IF Head(segs) = SegUp
       THEN Normalize(IF base = <<>> THEN <<>>
                      ELSE SubSeq(base, 1, Len(base) - 1), Tail(segs))
       ELSE Normalize(Append(base, Head(segs)), Tail(segs))

resolve(path) ==
  [dirs |-> Normalize(IF path.abs THEN <<>> ELSE Cwd, path.dirs),
   name |-> path.name, ext |-> path.ext]

\* the characters of an absolute path: "/" before every segment
RECURSIVE DirString(_)
DirString(dirs) ==
  IF dirs = <<>> THEN <<>>
  ELSE <<"/">> \o Head(dirs) \o DirString(Tail(dirs))

PathString(abs) == DirString(abs.dirs) \o <<"/">> \o abs.name \o <<abs.ext>>

\* String.prototype.startsWith
startsWith(str, prefix) ==
  /\ Len(str) >= Len(prefix)
  /\ SubSeq(str, 1, Len(prefix)) = prefix

\* String.prototype.toLowerCase on an extension
toLowerCase(ext) == IF ext = ".JPG" THEN ".jpg" ELSE ext

validExtensions == {".png", ".jpg", ".jpeg", ".bmp", ".gif"}

\* sanitizeFilePath: NoFile stands for null
sanitizeFilePath(path) ==
  LET absolutePath == resolve(path)
      ext == toLowerCase(absolutePath.ext)
  IN IF ~startsWith(PathString(absolutePath), DirString(Cwd)) THEN NoFile
     ELSE IF absolutePath.dirs \notin ExistingDirs THEN NoFile
     ELSE IF ext # "" /\ ext \notin validExtensions THEN NoFile
     ELSE [written |-> TRUE, at |-> absolutePath]

\* takeScreenshot(pageId, path) is called: the page lookup, then
\* await page.screenshot(...)
TakeScreenshotCalled(pageId, path) ==
  /\ shot.pc = "idle"
  /\ IF getPage(pages, pageId) = NULL
     THEN /\ shotResult' = [error |-> "not found", wrote |-> NoFile]
          /\ shot' = shot
     ELSE /\ shot' = [pc |-> "screenshot", path |-> path]
          /\ shotResult' = NoShotResult
  /\ UNCHANGED files
  /\ ShotOnly

\* page.screenshot rejects: the catch block logs and rethrows
ScreenshotFails ==
  /\ shot.pc = "screenshot"
  /\ shot' = IdleShot
  /\ shotResult' = [error |-> "screenshot failed", wrote |-> NoFile]
  /\ UNCHANGED files
  /\ ShotOnly

\* page.screenshot resolves: sanitize the path if one was given, write the
\* file, return the buffer
ScreenshotTaken ==
  /\ shot.pc = "screenshot"
  /\ shot' = IdleShot
  /\ IF ~shot.path.given
     THEN /\ shotResult' = [error |-> "", wrote |-> NoFile]
          /\ UNCHANGED files
     ELSE LET sanitizedPath == sanitizeFilePath(shot.path)
          IN IF sanitizedPath = NoFile
             THEN /\ shotResult' = [error |-> "Invalid file path",
                                    wrote |-> NoFile]
                  /\ UNCHANGED files
             ELSE /\ files' = files \cup {sanitizedPath.at}
                  /\ shotResult' = [error |-> "", wrote |-> sanitizedPath]
  /\ ShotOnly

InitShot ==
  /\ InitActVars
  /\ InitTabVars
  /\ InitScanVars
  /\ InitRiskVars
  /\ InitPageVars
  /\ InitFsVars
  /\ InitToon
  /\ InitLoopVars
  /\ InitViewVars
  /\ InitUtilVars

NextShot ==
  \/ \E pageId \in 1..2, path \in PathArgs \cup {NoPath} :
       TakeScreenshotCalled(pageId, path)
  \/ ScreenshotFails
  \/ ScreenshotTaken

SpecShot == InitShot /\ [][NextShot]_vars

\* the directory lies in the tree rooted at the working directory
InsideCwd(dirs) ==
  /\ Len(dirs) >= Len(Cwd)
  /\ \A i \in 1..Len(Cwd) : dirs[i] = Cwd[i]

\* what the path must satisfy for a file to be written
Writable(path) ==
  /\ InsideCwd(resolve(path).dirs)
  /\ resolve(path).dirs \in ExistingDirs
  /\ toLowerCase(path.ext) \in {".png", ".jpg", ".jpeg", ".bmp", ".gif"}

\* C25: a takeScreenshot call writes a file only when the resolved path
\* lies inside the working-directory tree, its directory exists and its
\* extension is one of .png, .jpg, .jpeg, .bmp, .gif; with any other path
\* the call writes nothing and throws.
C25_ScreenshotPathGuard ==
  [][ (shot.pc = "screenshot" /\ shot'.pc = "idle" /\ shot.path.given)
        => /\ shotResult'.wrote # NoFile => Writable(shot.path)
           /\ ~Writable(shot.path)
                => /\ shotResult'.wrote = NoFile
                   /\ files' = files
                   /\ shotResult'.error # ""
    ]_vars

\* ------------------------------------------------------------------------
\* WebAgent.getCurrentBrowserState / escapeValue: the tabs section and the
\* elements section of the serialized state. A string is its sequence of
\* characters; an id or a flag is one character of the output.
\* ------------------------------------------------------------------------
ToonOnly ==
  UNCHANGED <<tabVars, scanVars, actVars, riskVars, pageVars, fsVars,
              loopVars, viewVars, utilVars>>

Quote == "\""
Comma == ","
LineBreak == "\n"

\* the strings a url, a title, a text or a value may be
FieldValues ==
  {<<>>, <<"a">>, <<"a", Comma, "b">>, <<Quote>>, <<"a", Quote, "b">>,
   <<"a", LineBreak, "b">>, <<Quote, Comma, Quote>>, <<Comma>>}

\* the strings a role attribute, an inputmode or a group name may be
AttributeValues == {<<"a">>, <<"a", Comma, "b">>}

TabRows ==
  {<<<<"1">>, <<"t">>, url, title>> : url \in FieldValues,
                                      title \in FieldValues}

ElementRows ==
  {<<<<"1">>, role, text, value, type, group>> :
     role \in AttributeValues, text \in FieldValues, value \in FieldValues,
     type \in AttributeValues \cup {<<>>},
     group \in AttributeValues \cup {<<>>}}

\* a section of no row, one row, or the same row twice
Sections(rows) ==
  {<<>>} \cup {<<r>> : r \in rows} \cup {<<r, r>> : r \in rows}

\* value.replace(/"/g, '""')
RECURSIVE DoubleQuotes(_)
DoubleQuotes(value) ==
  IF value = <<>> THEN <<>>
  ELSE (IF Head(value) = Quote THEN <<Quote, Quote>> ELSE <<Head(value)>>)
       \o DoubleQuotes(Tail(value))

escapeValue(value) ==
  IF value = <<>> THEN <<>>
  ELSE LET escaped == DoubleQuotes(value)
       IN IF Includes(escaped, <<Comma>>) \/ Includes(escaped, <<Quote>>)
          THEN <<Quote>> \o escaped \o <<Quote>>
          ELSE escaped

\* `${tab.id},${tab.is_active},${tab.url},${this.escapeValue(tab.title)}\n`
TabLine(tab) ==
  tab[1] \o <<Comma>> \o tab[2] \o <<Comma>> \o tab[3] \o <<Comma>>
    \o escapeValue(tab[4]) \o <<LineBreak>>

\* `${id},${role},${text},${value},${input_type},${input_group}\n`
ElementLine(el) ==
  el[1] \o <<Comma>> \o el[2] \o <<Comma>> \o escapeValue(el[3])
    \o <<Comma>> \o escapeValue(el[4]) \o <<Comma>> \o el[5]
    \o <<Comma>> \o el[6] \o <<LineBreak>>

RowLine(section, row) ==
  IF section = "tabs" THEN TabLine(row) ELSE ElementLine(row)

\* tabsInfo.forEach / elements.forEach appending to state
RECURSIVE Lines(_, _)
Lines(section, rows) ==
  IF rows = <<>> THEN <<>>
  ELSE RowLine(section, Head(rows)) \o Lines(section, Tail(rows))

\* the text of one section: its header, as the count and the number of
\* fields it declares, and the record lines after it
SectionText(section, rows) ==
  [count |-> Len(rows),
   fields |-> IF section = "tabs" THEN 4 ELSE 6,
   body |-> Lines(section, rows)]

\* getCurrentBrowserState has the tabs, or the elements, to serialize
GetStateSection(section, rows) ==
  /\ toon.pc = "idle"
  /\ toon' = [pc |-> "rows", section |-> section, rows |-> rows]
  /\ ToonOnly

\* the header and the forEach loop of the section
GetStateSerialized ==
  /\ toon.pc = "rows"
  /\ toon' = [pc |-> "text", section |-> toon.section, rows |-> toon.rows,
              text |-> SectionText(toon.section, toon.rows)]
  /\ ToonOnly

\* the text goes to the model, the next step starts from scratch
GetStateReturns ==
  /\ toon.pc = "text"
  /\ toon' = NoSection
  /\ ToonOnly

InitState ==
  /\ InitActVars
  /\ InitTabVars
  /\ InitScanVars
  /\ InitRiskVars
  /\ InitPageVars
  /\ InitFsVars
  /\ InitToon
  /\ InitLoopVars
  /\ InitViewVars
  /\ InitUtilVars

NextState ==
  \/ \E rows \in Sections(TabRows) : GetStateSection("tabs", rows)
  \/ \E rows \in Sections(ElementRows) : GetStateSection("elements", rows)
  \/ GetStateSerialized
  \/ GetStateReturns

SpecState == InitState /\ [][NextState]_vars

\* ---- reading a section back: lines end at a line break, fields at a
\* ---- comma outside quotes, a doubled quote inside quotes is one quote
RECURSIVE SplitLines(_, _)
SplitLines(str, cur) ==
  IF str = <<>> THEN (IF cur = <<>> THEN <<>> ELSE <<cur>>)
  ELSE IF Head(str) = LineBreak
       THEN <<cur>> \o SplitLines(Tail(str), <<>>)
       ELSE SplitLines(Tail(str), Append(cur, Head(str)))

RECURSIVE ParseFields(_, _, _)
ParseFields(str, cur, mode) ==
  IF str = <<>> THEN <<cur>>
  ELSE LET c == Head(str)
           rest == Tail(str)
       IN CASE mode = "start" /\ c = Quote -> ParseFields(rest, cur, "quoted")
            [] mode = "quoted" /\ c = Quote /\ rest # <<>> /\ Head(rest) = Quote
                 -> ParseFields(Tail(rest), Append(cur, Quote), "quoted")
            [] mode = "quoted" /\ c = Quote -> ParseFields(rest, cur, "plain")
            [] mode = "quoted" -> ParseFields(rest, Append(cur, c), "quoted")
            [] c = Comma -> <<cur>> \o ParseFields(rest, <<>>, "start")
            [] OTHER -> ParseFields(rest, Append(cur, c), "plain")

ParsedRows(text) ==
  LET lines == SplitLines(text.body, <<>>)
  IN [i \in 1..Len(lines) |-> ParseFields(lines[i], <<>>, "start")]

\* C26: a serialized section reads back: as many record lines as the
\* header counts, each of as many fields as the header declares, and each
\* field equal to the value it was written from, whatever commas, quote
\* characters or line breaks the values hold.
C26_SectionRoundTrip ==
  toon.pc = "text"
    => LET parsed == ParsedRows(toon.text)
       IN /\ Len(parsed) = toon.text.count
          /\ \A i \in 1..Len(parsed) : Len(parsed[i]) = toon.text.fields
          /\ parsed = toon.rows

\* ------------------------------------------------------------------------
\* WebAgent.executeTask / parseModelResponse / stop
\*
\* executeTask is cut at its awaits: getCurrentBrowserState ("getState"),
\* generateAIResponse ("generate"), and inside executeAction the security
\* evaluation ("risk"), the operation ("execute"), generateObservation
\* ("rescan") and the catch block ("catch"); then the delay between
\* iterations ("delay", "errorDelay"). fed holds the messages the
\* iteration has pushed to chatMessages, declared the action name the
\* iteration's response declared ("" for none, "-" before the response).
\* ------------------------------------------------------------------------
LoopOnly ==
  UNCHANGED <<tabVars, scanVars, actVars, riskVars, pageVars, fsVars, toon,
              viewVars, utilVars>>

MaxIterations == 3

\* what the text of a model response may hold
ModelResponses ==
  [thought : {"", "t"}, action : {""}, summary : {FALSE},
   parameters : {<<>>}]
  \cup
  [thought : {"t"}, action : {"goal_achieved"}, summary : BOOLEAN,
   parameters : {<<>>}]
  \cup
  [thought : {"t"}, action : {"click_element", "wait"}, summary : {FALSE},
   parameters : {<<>>, <<[key |-> "id", value |-> Num(1)]>>,
                 <<[key |-> "id", value |-> Num(0)]>>}]

\* a parser that takes a response without an action for an error
parseModelResponseStrict(response) ==
  IF response.action = ""
  THEN [thought |-> response.thought, goal |-> FALSE, action |-> NoAction,
        error |-> "No action"]
  ELSE LET parameters == IF response.action = "goal_achieved" THEN <<>>
                         ELSE response.parameters
           v == validateParameters(response.action, parameters)
       IN [thought |-> response.thought,
           goal |-> response.action = "goal_achieved" /\ response.summary,
           action |-> IF v.error # "" THEN NoAction
                      ELSE [tool |-> response.action,
                            parameters |-> v.validated],
           error |-> v.error]

\* parseModelResponse: the thought, the goal when a summary was matched,
\* the action with its validated parameters; error is what it throws
parseModelResponse(response) ==
  IF response.action = ""
  THEN [thought |-> response.thought, goal |-> FALSE, action |-> NoAction,
        error |-> ""]
  ELSE LET parameters == IF response.action = "goal_achieved" THEN <<>>
                         ELSE response.parameters
           v == validateParameters(response.action, parameters)
       IN [thought |-> response.thought,
           goal |-> response.action = "goal_achieved" /\ response.summary,
           action |-> IF v.error # "" THEN NoAction
                      ELSE [tool |-> response.action,
                            parameters |-> v.validated],
           error |-> v.error]

\* after the loop: this.running = false, and the call returns
Finish(t) ==
  /\ running' = FALSE
  /\ tasks' = [tasks EXCEPT ![t] = IdleTask]

\* the catch block of the iteration: feed the error back, then leave the
\* loop or wait before the next iteration
Caught(t, fed, declared) ==
  IF tasks[t].iteration >= tasks[t].maxIterations - 1
  THEN Finish(t)
  ELSE /\ tasks' = [tasks EXCEPT ![t].pc = "errorDelay",
                                 ![t].fed = Append(fed, "error"),
                                 ![t].declared = declared,
                                 ![t].action = NoAction]
       /\ UNCHANGED running

\* executeTask(goal, maxIterations) up to its first await: running is set
\* and the first iteration starts
ExecuteTask(t, maxIterations) ==
  /\ tasks[t].pc = "idle"
  /\ running' = TRUE
  /\ tasks' = [tasks EXCEPT ![t] =
                 [pc |-> "getState", iteration |-> 1,
                  maxIterations |-> maxIterations, fed |-> <<>>,
                  declared |-> "-", action |-> NoAction,
                  halted |-> FALSE]]
  /\ LoopOnly

\* stop(); halted marks the calls it found at work
Stop ==
  /\ running' = FALSE
  /\ tasks' = [t \in Callers |->
                 IF tasks[t].pc = "idle" THEN tasks[t]
                 ELSE [tasks[t] EXCEPT !.halted = TRUE]]
  /\ LoopOnly

\* getCurrentBrowserState has returned: the state is pushed
StateRead(t) ==
  /\ tasks[t].pc = "getState"
  /\ tasks' = [tasks EXCEPT ![t].pc = "generate",
                            ![t].fed = Append(@, "state")]
  /\ UNCHANGED running
  /\ LoopOnly

\* generateAIResponse has returned: parse, push the response, stop at the
\* goal, call executeAction up to its first await, or do nothing
ResponseParsed(t, response) ==
  /\ tasks[t].pc = "generate"
  /\ LET parsed == parseModelResponse(response)
         fed == Append(tasks[t].fed, "assistant")
     IN IF parsed.error # "" THEN Caught(t, tasks[t].fed, response.action)
        ELSE IF parsed.goal THEN Finish(t)
        ELSE IF parsed.action # NoAction
             THEN IF currentPageId = NULL
                     \/ validateParameters(parsed.action.tool,
                                           parsed.action.parameters).error # ""
                  THEN Caught(t, fed, response.action)
                  ELSE /\ tasks' = [tasks EXCEPT ![t].pc = "risk",
                                                 ![t].fed = fed,
                                                 ![t].declared =
                                                   response.action,
                                                 ![t].action = parsed.action]
                       /\ UNCHANGED running
             ELSE /\ tasks' = [tasks EXCEPT ![t].pc = "delay",
                                            ![t].fed = fed,
                                            ![t].declared = response.action]
                  /\ UNCHANGED running
  /\ LoopOnly

\* the block check and the risk evaluation end: go on, or throw
RiskChecked(t, pass) ==
  /\ tasks[t].pc = "risk"
  /\ IF pass
     THEN /\ tasks' = [tasks EXCEPT ![t].pc = "execute"]
          /\ UNCHANGED running
     ELSE Caught(t, tasks[t].fed, tasks[t].declared)
  /\ LoopOnly

\* the operation of the action ends
Executed(t, ok) ==
  /\ tasks[t].pc = "execute"
  /\ tasks' = [tasks EXCEPT ![t].pc = IF ok THEN "rescan" ELSE "catch"]
  /\ UNCHANGED running
  /\ LoopOnly

\* generateObservation has returned: the result is pushed
Rescanned(t) ==
  /\ tasks[t].pc = "rescan"
  /\ tasks' = [tasks EXCEPT ![t].pc = "delay",
                            ![t].fed = Append(@, "result"),
                            ![t].action = NoAction]
  /\ UNCHANGED running
  /\ LoopOnly

\* the catch block of executeAction has built its observation and rethrows
ActionCaught(t) ==
  /\ tasks[t].pc = "catch"
  /\ Caught(t, tasks[t].fed, tasks[t].declared)
  /\ LoopOnly

\* a loop that does not count its iterations
DelayElapsedNoCount(t) ==
  /\ tasks[t].pc \in {"delay", "errorDelay"}
  /\ IF running /\ tasks[t].iteration < tasks[t].maxIterations
     THEN /\ tasks' = [tasks EXCEPT ![t].pc = "getState",
                                    ![t].fed = <<>>,
                                    ![t].declared = "-"]
          /\ UNCHANGED running
     ELSE Finish(t)
  /\ LoopOnly

\* the delay is over: while (this.running && iteration < maxIterations)
DelayElapsed(t) ==
  /\ tasks[t].pc \in {"delay", "errorDelay"}
  /\ IF running /\ tasks[t].iteration < tasks[t].maxIterations
     THEN /\ tasks' = [tasks EXCEPT ![t].pc = "getState",
                                    ![t].iteration = @ + 1,
                                    ![t].fed = <<>>,
                                    ![t].declared = "-"]
          /\ UNCHANGED running
     ELSE Finish(t)
  /\ LoopOnly

InitLoop ==
  /\ currentPageId = 1
  /\ enabled = TRUE
  /\ userAssistanceCallback = FALSE
  /\ action = NoAction
  /\ riskAssessment = NoAssessment
  /\ actPc = "idle"
  /\ error = ""
  /\ trail = <<>>
  /\ InitTabVars
  /\ InitScanVars
  /\ InitRiskVars
  /\ InitPageVars
  /\ InitFsVars
  /\ InitToon
  /\ InitLoopVars
  /\ InitViewVars
  /\ InitUtilVars

NextLoop ==
  \/ \E t \in Callers, n \in 1..MaxIterations : ExecuteTask(t, n)
  \/ Stop
  \/ \E t \in Callers : StateRead(t)
  \/ \E t \in Callers, response \in ModelResponses :
       ResponseParsed(t, response)
  \/ \E t \in Callers, pass \in BOOLEAN : RiskChecked(t, pass)
  \/ \E t \in Callers, ok \in BOOLEAN : Executed(t, ok)
  \/ \E t \in Callers : Rescanned(t)
  \/ \E t \in Callers : ActionCaught(t)
  \/ \E t \in Callers : DelayElapsed(t)

SpecLoop == InitLoop /\ [][NextLoop]_vars

\* C27: a response that declares no action is no action this step: the
\* step pushes the response and nothing else, executes nothing, throws
\* nothing and feeds no error back; after the delay the loop goes on with
\* the next iteration, or ends when it was stopped or has run out.
C27_NoActionIsNoError ==
  [][ \A t \in Callers :
        /\ (tasks[t].pc = "generate" /\ tasks'[t].declared = "")
             => /\ tasks'[t].pc = "delay"
                /\ tasks'[t].fed = Append(tasks[t].fed, "assistant")
                /\ tasks'[t].action = NoAction
                /\ tasks'[t].iteration = tasks[t].iteration
                /\ running' = running
        /\ (tasks[t].pc = "delay" /\ tasks[t].declared = ""
               /\ tasks'[t].pc # "delay")
             => IF running /\ tasks[t].iteration < tasks[t].maxIterations
                THEN /\ tasks'[t].pc = "getState"
                     /\ tasks'[t].iteration = tasks[t].iteration + 1
                ELSE tasks'[t] = IdleTask
    ]_vars

C27_Witness ==
  \E t \in Callers :
    /\ tasks[t].pc = "delay"
    /\ tasks[t].declared = ""
    /\ tasks[t].fed = <<"state", "assistant">>
    /\ running
    /\ tasks[t].iteration < tasks[t].maxIterations

\* a step of the loop is in flight for t
InStep(task) ==
  task.pc \in {"getState", "generate", "risk", "execute", "rescan", "catch"}

\* C28: a stop() issued while a step is in flight changes nothing of that
\* step (its action goes on to completion or failure), and the call that
\* was stopped starts no further step.
C28_StopLetsStepFinish ==
  [][ \A t \in Callers :
        /\ (InStep(tasks[t]) /\ ~tasks[t].halted /\ tasks'[t].halted)
             => tasks'[t] = [tasks[t] EXCEPT !.halted = TRUE]
        /\ (tasks[t].halted /\ tasks'[t].pc = "getState")
             => tasks[t].pc = "getState"
    ]_vars

\* C29: at most one step of the agent is at work on the browser at any
\* time, whatever the interleaving of executeTask and stop calls.
C29_OneStepAtATime ==
  \A t, u \in Callers : (InStep(tasks[t]) /\ InStep(tasks[u])) => t = u

\* C30: one clickElement or typeText call asks each of its browser
\* operations at most once; when the browser rejects one, the call ends
\* with that error and makes no further operation.
C30_NoRetry ==
  [][ /\ \A op \in NativeOps : Count(paTrail', op) <= 1
      /\ paError' # "" => paCall'.pc = "done"
      /\ (paCall.pc = "done" /\ paError # "")
           => \/ paCall' = paCall /\ paTrail' = paTrail /\ paError' = paError
              \/ paCall' = IdlePageCall
    ]_vars

C30_Witness ==
  /\ paCall.op = "clickElement"
  /\ paCall.pc = "done"
  /\ paError = "Timeout"
  /\ Count(paTrail, "click") = 1

\* ------------------------------------------------------------------------
\* ElementTagger.findElementById / isElementInteractable / clearTags on a
\* page with an element in the main document, one in an iframe and one in
\* an iframe nested in that iframe
\* ------------------------------------------------------------------------
LookupOnly ==
  UNCHANGED <<tabVars, actVars, riskVars, pageVars, fsVars, toon, loopVars,
              utilVars>>

\* the slots the page of the lookups uses, and the frames it loads
LookupSlots == {<<0, 1>>, <<2, 1>>, <<3, 1>>}
LookupFrames == {2, 3}

\* the ids a caller may ask for
LookupIds == 1..(Cardinality(LookupSlots) + 1)

NoSlot == <<0, 0>>

\* doc.querySelector(`[data-agent-id="${id}"]`): the first element of
\* document d, in document order, that carries the id
RECURSIVE QueryFrom(_, _, _)
QueryFrom(d, id, i) ==
  IF i > SlotCount(d) THEN NoSlot
  ELSE IF dom[<<d, i>>].present /\ dom[<<d, i>>].tag = id THEN <<d, i>>
       ELSE QueryFrom(d, id, i + 1)

querySelector(d, id) == QueryFrom(d, id, 1)

\* the loop over document.querySelectorAll('iframe') of findElementById:
\* the first accessible iframe of the main document that holds the id
RECURSIVE FindInFrames(_, _)
FindInFrames(fs, id) ==
  IF fs = <<>> THEN NoSlot
  ELSE IF frames[Head(fs)] = "same" /\ querySelector(Head(fs), id) # NoSlot
       THEN querySelector(Head(fs), id)
       ELSE FindInFrames(Tail(fs), id)

findElementById(id) ==
  IF querySelector(0, id) # NoSlot THEN querySelector(0, id)
  ELSE FindInFrames(Children(0), id)

\* rect.width > 0, rect.height > 0, display and visibility of the element
Rendered(s) == dom[s].present /\ dom[s].visible

\* rect.top >= 0, rect.left >= 0, rect.bottom <= innerHeight,
\* rect.right <= innerWidth
InViewport(s) == s \notin offscreen

\* checkVisibility(document)
checkVisibility(id) ==
  LET s == querySelector(0, id)
  IN s # NoSlot /\ Rendered(s) /\ InViewport(s)

\* the function applied to each accessible iframe of the main document
RECURSIVE CheckFrames(_, _)
CheckFrames(fs, id) ==
  IF fs = <<>> THEN FALSE
  ELSE IF frames[Head(fs)] = "same"
          /\ querySelector(Head(fs), id) # NoSlot
          /\ Rendered(querySelector(Head(fs), id))
       THEN TRUE
       ELSE CheckFrames(Tail(fs), id)

\* isElementInteractable(page, agentId)
isElementInteractableById(id) ==
  checkVisibility(id) \/ CheckFrames(Children(0), id)

\* the page.evaluate of clearTags: the main document and the accessible
\* iframes of the main document
clearTags(tags) ==
  [s \in Slots |->
     IF s[1] = 0 \/ (s[1] \in TopFrames /\ frames[s[1]] = "same")
     THEN 0 ELSE tags[s]]

FindElementByIdCalled(id) ==
  /\ lookup = NoLookup
  /\ lookup' = [op |-> "findElementById", id |-> id,
                found |-> findElementById(id)]
  /\ UNCHANGED <<scanVars, offscreen>>
  /\ LookupOnly

IsElementInteractableCalled(id) ==
  /\ lookup = NoLookup
  /\ lookup' = [op |-> "isElementInteractable", id |-> id,
                result |-> isElementInteractableById(id)]
  /\ UNCHANGED <<scanVars, offscreen>>
  /\ LookupOnly

ClearTagsCalled ==
  /\ lookup = NoLookup
  /\ dom' = WithTags(dom, clearTags(TagsOf(dom)))
  /\ lookup' = [op |-> "clearTags"]
  /\ since' = Mutated
  /\ scanObs' = 0
  /\ UNCHANGED <<frames, nextId, lastScan, offscreen>>
  /\ LookupOnly

\* the page or the user scrolls: an element leaves the viewport or comes
\* back into it; the documents stay as they are
ViewportScrolls(s) ==
  /\ dom[s].present
  /\ offscreen' = IF s \in offscreen THEN offscreen \ {s}
                  ELSE offscreen \cup {s}
  /\ UNCHANGED <<scanVars, lookup>>
  /\ LookupOnly

\* the caller takes what the call returned
LookupReturns ==
  /\ lookup # NoLookup
  /\ lookup' = NoLookup
  /\ UNCHANGED <<scanVars, offscreen>>
  /\ LookupOnly

NextLookup ==
  \/ tagInteractiveElements
  \/ \E s \in LookupSlots, vis \in BOOLEAN : ElementAppears(s, vis)
  \/ \E f \in LookupFrames : FrameLoads(f, "same")
  \/ \E s \in LookupSlots : ViewportScrolls(s)
  \/ \E id \in LookupIds : FindElementByIdCalled(id)
  \/ \E id \in LookupIds : IsElementInteractableCalled(id)
  \/ ClearTagsCalled
  \/ LookupReturns

SpecLookup == InitScan /\ [][NextLookup]_vars

\* the elements that carry the id in a document a script of the page can
\* reach
Carriers(id) ==
  {s \in Slots : dom[s].present /\ dom[s].tag = id /\ Reachable(s[1])}

\* C31: isElementInteractable(id) returns true only if an element that
\* carries the id has a box that is not empty, is displayed and not hidden
\* and lies fully within the viewport, in the main document and in frames
\* alike; it returns false when no element carries the id.
C31_InteractableMeansInView ==
  [][ (lookup = NoLookup /\ lookup'.op = "isElementInteractable") =>
        /\ lookup'.result
             => \E s \in Carriers(lookup'.id) : Rendered(s) /\ InViewport(s)
        /\ Carriers(lookup'.id) = {} => ~lookup'.result
    ]_vars

\* C32: after clearTags no element of the main document or of a
\* same-origin frame a scan reaches, at any depth, carries an id.
C32_ClearTagsClearsAll ==
  [][ (lookup = NoLookup /\ lookup'.op = "clearTags") =>
        \A s \in Slots : Reachable(s[1]) => dom'[s].tag = 0
    ]_vars

\* C40: while the page is as the last scan left it, findElementById
\* resolves every id the scan returned to the element it was returned for,
\* and isElementInteractable answers for that element, frames nested in
\* frames included.
C40_ScannedIdsResolve ==
  [][ (since \in {"first", "same", "twice"} /\ lookup = NoLookup
       /\ lookup'.op \in {"findElementById", "isElementInteractable"})
        => \A s \in Returned(lastScan) :
             lastScan[s] = lookup'.id
               => IF lookup'.op = "findElementById"
                  THEN lookup'.found = s
                  ELSE /\ lookup'.result => Rendered(s)
                       /\ (Rendered(s) /\ InViewport(s)) => lookup'.result
    ]_vars

\* ------------------------------------------------------------------------
\* ElementTagger.sanitizeNodeText, applied to the text and to the string
\* value of every descriptor a scan returns
\*
\* A text is a sequence of characters. The texts of the pages are the
\* concatenations of four fragments, so that a tag may be closed by a later
\* fragment, hold another tag, or be put together by the removal of what
\* stood between its halves.
\* ------------------------------------------------------------------------
TextOnly ==
  UNCHANGED <<tabVars, scanVars, actVars, riskVars, pageVars, fsVars, toon,
              loopVars, viewVars, waiting, chat, limiter>>

Lt == "<"

Gt == ">"

Blank == " "

ScriptOpen == <<"<", "s", "c", "r", "i", "p", "t">>

ScriptClose == <<"<", "/", "s", "c", "r", "i", "p", "t", ">">>

WordChars == {"s", "c", "r", "i", "p", "t", "b", "S"}

Fragments ==
  {<<>>, <<Lt>>, <<Gt>>, <<Blank>>, <<"b">>, <<Lt, "b", Gt>>,
   <<Lt, "S", "c", "r", "i", "p", "t">>, ScriptOpen, ScriptClose}

Texts ==
  {f[1] \o f[2] \o f[3] \o f[4] :
     f \in Fragments \X Fragments \X Fragments \X Fragments}

\* the flag i of the first pattern
LowerChar(c) == IF c = "S" THEN "s" ELSE c

\* pat stands in str at index i
MatchAt(str, pat, i) ==
  /\ i + Len(pat) - 1 <= Len(str)
  /\ \A k \in 1..Len(pat) : LowerChar(str[i + k - 1]) = pat[k]

\* /<script\b[^<]*(?:(?!<\/script>)<[^<]*)*<\/script>/gi matched at the head
\* of str: the index of the last character of the match, 0 for no match.
\* The match runs from "<script" at a word boundary to the first
\* "</script>" after it.
ScriptMatch(str) ==
  IF /\ MatchAt(str, ScriptOpen, 1)
     /\ (Len(str) = Len(ScriptOpen)
         \/ (Len(str) > Len(ScriptOpen)
             /\ str[Len(ScriptOpen) + 1] \notin WordChars))
  THEN LET ends == {j \in (Len(ScriptOpen) + 1)..Len(str) :
                      MatchAt(str, ScriptClose, j)}
       IN IF ends = {} THEN 0
          ELSE (CHOOSE j \in ends : \A k \in ends : j <= k)
                 + Len(ScriptClose) - 1
  ELSE 0

\* .replace(first pattern, '')
RECURSIVE RemoveScripts(_)
RemoveScripts(str) ==
  IF str = <<>> THEN <<>>
  ELSE IF ScriptMatch(str) > 0
       THEN RemoveScripts(SubSeq(str, ScriptMatch(str) + 1, Len(str)))
       ELSE <<Head(str)>> \o RemoveScripts(Tail(str))

\* a pattern whose tags hold no "<": /<[^<>]*>/
TagMatchNarrow(str) ==
  IF str # <<>> /\ Head(str) = Lt
     /\ \E j \in 2..Len(str) :
          str[j] = Gt /\ \A k \in 2..(j - 1) : str[k] \notin {Lt, Gt}
  THEN CHOOSE j \in 2..Len(str) :
         str[j] = Gt /\ \A k \in 2..(j - 1) : str[k] \notin {Lt, Gt}
  ELSE 0

\* /<[^>]*>/ matched at the head of str: the index of the first ">" after
\* a leading "<", 0 for no match
TagMatch(str) ==
  IF str # <<>> /\ Head(str) = Lt /\ \E j \in 2..Len(str) : str[j] = Gt
  THEN CHOOSE j \in 2..Len(str) :
         str[j] = Gt /\ \A k \in 2..(j - 1) : str[k] # Gt
  ELSE 0

\* .replace(/<[^>]*>/g, '')
RECURSIVE RemoveTags(_)
RemoveTags(str) ==
  IF str = <<>> THEN <<>>
  ELSE IF TagMatch(str) > 0
       THEN RemoveTags(SubSeq(str, TagMatch(str) + 1, Len(str)))
       ELSE <<Head(str)>> \o RemoveTags(Tail(str))

\* .trim()
RECURSIVE TrimText(_)
TrimText(str) ==
  IF str = <<>> THEN <<>>
  ELSE IF Head(str) = Blank THEN TrimText(Tail(str))
  ELSE IF str[Len(str)] = Blank THEN TrimText(SubSeq(str, 1, Len(str) - 1))
  ELSE str

sanitizeNodeText(text) == TrimText(RemoveTags(RemoveScripts(text)))

\* what page.evaluate returned for one field of one element
Scanned ==
  [pc : {"scanned"}, field : {"text"}, string : {TRUE}, raw : Texts]
  \cup
  [pc : {"scanned"}, field : {"value"}, string : {TRUE}, raw : Texts]
  \cup
  [pc : {"scanned"}, field : {"value"}, string : {FALSE}, raw : {<<>>}]

\* the map over result.elements: text: sanitizeNodeText(el.text || '')
TextSanitized ==
  /\ cleaned.pc = "scanned" /\ cleaned.field = "text"
  /\ cleaned' = [cleaned EXCEPT !.pc = "done"] @@
                  [out |-> sanitizeNodeText(cleaned.raw)]
  /\ TextOnly

\* value: typeof el.value === 'string' ? sanitizeNodeText(el.value)
\*                                     : el.value
ValueSanitized ==
  /\ cleaned.pc = "scanned" /\ cleaned.field = "value"
  /\ cleaned' = [cleaned EXCEPT !.pc = "done"] @@
                  [out |-> IF cleaned.string THEN sanitizeNodeText(cleaned.raw)
                           ELSE cleaned.raw]
  /\ TextOnly

InitText ==
  /\ InitTabVars
  /\ InitScanVars
  /\ InitActVars
  /\ InitRiskVars
  /\ InitPageVars
  /\ InitFsVars
  /\ InitToon
  /\ InitLoopVars
  /\ InitViewVars
  /\ cleaned \in Scanned
  /\ waiting = NoWait
  /\ chat = NoChat
  /\ limiter = NoLimiter

NextText ==
  \/ TextSanitized
  \/ ValueSanitized

SpecText == InitText /\ [][NextText]_vars

\* a "<" with a ">" somewhere after it
HasMarkup(str) ==
  \E i \in 1..Len(str), j \in 1..Len(str) :
    i < j /\ str[i] = Lt /\ str[j] = Gt

\* C33: the text and the string value of a returned descriptor hold no "<"
\* that a ">" follows, whatever the page's text was.
C33_NoMarkupLeft ==
  (cleaned.pc = "done" /\ cleaned.string) => ~HasMarkup(cleaned.out)

\* a text whose tag held another tag and stood next to a script block was
\* sanitized, and something of it is left
C33_Witness ==
  /\ cleaned.pc = "done" /\ cleaned.field = "text"
  /\ HasMarkup(cleaned.raw)
  /\ cleaned.raw # RemoveScripts(cleaned.raw)
  /\ cleaned.out # <<>>
  /\ Lt \in Range(cleaned.out) \/ Gt \in Range(cleaned.out)

\* ------------------------------------------------------------------------
\* The wait action: executeAction's case 'wait' and PageActions.wait
\* ------------------------------------------------------------------------
WaitOnly ==
  UNCHANGED <<tabVars, scanVars, actVars, riskVars, pageVars, fsVars, toon,
              loopVars, viewVars, cleaned, chat, limiter>>

\* the durations and the selectors a model response may give
WaitDurations ==
  {Num(0), Num(1), Num(500), Num(1000), Num(2000), Num(3000), Num(30000),
   Num(MaxDuration), Num(MaxDuration + 1)}

WaitSelectors == {Str(<<"#submit">>), Str(<<"div", ">", "button">>)}

\* the parameter bags of a wait action, as the response gives them
WaitRequests ==
  {<<>>}
  \cup {<<[key |-> "duration", value |-> d]>> : d \in WaitDurations}
  \cup {<<[key |-> "selector", value |-> s]>> : s \in WaitSelectors}
  \cup {<<[key |-> "duration", value |-> d], [key |-> "selector", value |-> s]>> :
          d \in WaitDurations, s \in WaitSelectors}
  \cup {<<[key |-> "selector", value |-> s], [key |-> "duration", value |-> d]>> :
          d \in WaitDurations, s \in WaitSelectors}

\* the bags that validateParameters('wait', ...) lets through
WaitBags ==
  {validateParameters("wait", raw).validated :
     raw \in {r \in WaitRequests : validateParameters("wait", r).error = ""}}

\* "Default wait of 2 seconds"
DefaultWait == 2000

\* (action.parameters.duration as number) || (action.parameters.selector
\* as string)
durationOrSelector(parameters) ==
  IF Truthy(Param(parameters, "duration")) THEN Param(parameters, "duration")
  ELSE Param(parameters, "selector")

\* PageActions.wait(pageId, durationOrSelector) up to its await: what it
\* asks of the page, or the error it throws
wait(found, arg) ==
  IF ~found THEN [pc |-> "failed", branch |-> "not found", ms |-> 0, selector |-> <<>>]
  ELSE IF arg.t = "number"
       THEN [pc |-> "waiting", branch |-> "duration", ms |-> arg.n,
             selector |-> <<>>]
  ELSE IF arg.t = "string"
       THEN [pc |-> "waiting", branch |-> "selector", ms |-> 0,
             selector |-> arg.s]
  ELSE [pc |-> "waiting", branch |-> "default", ms |-> DefaultWait,
        selector |-> <<>>]

\* case 'wait' of executeAction, PageActions.wait up to its await
WaitCalled ==
  /\ waiting.pc = "validated"
  /\ waiting' = wait(waiting.found, durationOrSelector(waiting.parameters))
                  @@ [parameters |-> waiting.parameters,
                      found |-> waiting.found]
  /\ WaitOnly

\* waitForTimeout resolved; waitForSelector resolved, or rejected after its
\* timeout; the catch logs and rethrows
WaitSettled(ok) ==
  /\ waiting.pc = "waiting"
  /\ ok \/ waiting.branch = "selector"
  /\ waiting' = [waiting EXCEPT !.pc = IF ok THEN "done" ELSE "failed"]
  /\ WaitOnly

InitWait ==
  /\ InitTabVars
  /\ InitScanVars
  /\ InitActVars
  /\ InitRiskVars
  /\ InitPageVars
  /\ InitFsVars
  /\ InitToon
  /\ InitLoopVars
  /\ InitViewVars
  /\ cleaned = NoText
  /\ waiting \in [pc : {"validated"}, parameters : WaitBags, found : BOOLEAN]
  /\ chat = NoChat
  /\ limiter = NoLimiter

NextWait ==
  \/ WaitCalled
  \/ \E ok \in BOOLEAN : WaitSettled(ok)

SpecWait == InitWait /\ [][NextWait]_vars

\* C34: a wait whose validated parameters hold a duration d and no selector
\* waits d milliseconds; one that holds a selector and no duration waits
\* for that selector; the default wait is made only when the parameters
\* hold neither.
C34_WaitAsAsked ==
  (waiting.pc = "waiting")
    => LET d == Param(waiting.parameters, "duration")
           s == Param(waiting.parameters, "selector")
       IN /\ (d # Null /\ s = Null)
               => (waiting.branch = "duration" /\ waiting.ms = d.n)
          /\ (d = Null /\ s # Null)
               => (waiting.branch = "selector" /\ waiting.selector = s.s)
          /\ waiting.branch = "default" => (d = Null /\ s = Null)

\* C35: when the response declares the action "goal_achieved" with a
\* summary, the call ends in that step: nothing is fed back as an error,
\* no delay and no further iteration follow, and running is false.
C35_GoalEndsTask ==
  [][ \A t \in Callers, response \in ModelResponses :
        (/\ response.action = "goal_achieved"
         /\ response.summary
         /\ ResponseParsed(t, response))
          => /\ tasks'[t].pc = "idle"
             /\ "error" \notin Range(tasks'[t].fed)
             /\ ~running'
    ]_vars

\* ------------------------------------------------------------------------
\* executeTask when every call it awaits returns: each suspended call is
\* resumed in the end (the model's reply, the browser's, the timers)
\* ------------------------------------------------------------------------
Resumed(t) ==
  \/ StateRead(t)
  \/ \E response \in ModelResponses : ResponseParsed(t, response)
  \/ \E pass \in BOOLEAN : RiskChecked(t, pass)
  \/ \E ok \in BOOLEAN : Executed(t, ok)
  \/ Rescanned(t)
  \/ ActionCaught(t)
  \/ DelayElapsed(t)

SpecLoopFair == SpecLoop /\ \A t \in Callers : WF_vars(Resumed(t))

ChatOnly ==
  UNCHANGED <<tabVars, scanVars, actVars, riskVars, pageVars, fsVars, toon,
              loopVars, viewVars, cleaned, waiting, limiter>>

\* private maxMessages: number = 50
maxMessages == 50

\* executeTask(goal, maxIterations = 20)
DefaultIterations == 20

ChatIterations == {1, 2, DefaultIterations}

\* this.chatMessages.push(...)
Pushed(c) == [c EXCEPT !.length = @ + 1]

\* if (this.chatMessages.length > this.maxMessages): the system message,
\* then otherMessages.slice(-this.maxMessages + 1)
Trimmed(c) ==
  IF c.length > maxMessages
  THEN LET others == IF c.system > 0 THEN c.length - 1 ELSE c.length
           recent == IF others > maxMessages - 1 THEN maxMessages - 1
                     ELSE others
       IN [c EXCEPT !.length = IF c.system > 0 THEN 1 + recent ELSE recent,
                    !.system = IF c.system > 0 THEN 1 ELSE 0]
  ELSE c

\* the catch block: push the error, then break or wait
ChatCaught(c) ==
  LET d == Pushed(c)
  IN IF c.iteration >= c.maxIterations - 1
     THEN [d EXCEPT !.pc = "returned"]
     ELSE [d EXCEPT !.pc = "errorDelay"]

\* while (this.running && iteration < maxIterations) { iteration++; ...
ChatLoop(c) ==
  IF c.iteration < c.maxIterations
  THEN [c EXCEPT !.pc = "getState", !.iteration = @ + 1]
  ELSE [c EXCEPT !.pc = "returned"]

\* executeTask up to its first await: the list is reset and the system
\* prompt and the task are pushed
ChatTaskStarts(maxIterations) ==
  /\ chat.pc = "idle"
  /\ chat' = ChatLoop([pc |-> "start", iteration |-> 0,
                       maxIterations |-> maxIterations,
                       length |-> 2, system |-> 1])
  /\ ChatOnly

\* getCurrentBrowserState has returned (the state is pushed) or thrown
ChatStateRead(ok) ==
  /\ chat.pc = "getState"
  /\ chat' = IF ok THEN [Pushed(chat) EXCEPT !.pc = "generate"]
             ELSE ChatCaught(chat)
  /\ ChatOnly

\* generateAIResponse has returned: parse, push the response, stop at the
\* goal, call executeAction, or trim and wait
ChatResponseParsed(response) ==
  /\ chat.pc = "generate"
  /\ LET parsed == parseModelResponse(response)
     IN chat' = IF parsed.error # "" THEN ChatCaught(chat)
                ELSE IF parsed.goal
                     THEN [Pushed(chat) EXCEPT !.pc = "returned"]
                ELSE IF parsed.action # NoAction
                     THEN [Pushed(chat) EXCEPT !.pc = "execute"]
                ELSE [Trimmed(Pushed(chat)) EXCEPT !.pc = "delay"]
  /\ ChatOnly

\* executeAction has returned (the result is pushed, the list trimmed) or
\* thrown
ChatExecuted(ok) ==
  /\ chat.pc = "execute"
  /\ chat' = IF ok THEN [Trimmed(Pushed(chat)) EXCEPT !.pc = "delay"]
             ELSE ChatCaught(chat)
  /\ ChatOnly

\* the delay between two iterations is over
ChatDelayElapsed ==
  /\ chat.pc \in {"delay", "errorDelay"}
  /\ chat' = ChatLoop(chat)
  /\ ChatOnly

\* this.running = false; the call returns
ChatTaskReturns ==
  /\ chat.pc = "returned"
  /\ chat' = NoChat
  /\ ChatOnly

InitChat ==
  /\ InitTabVars
  /\ InitScanVars
  /\ InitActVars
  /\ InitRiskVars
  /\ InitPageVars
  /\ InitFsVars
  /\ InitToon
  /\ InitLoopVars
  /\ InitViewVars
  /\ InitUtilVars

NextChat ==
  \/ \E n \in ChatIterations : ChatTaskStarts(n)
  \/ \E ok \in BOOLEAN : ChatStateRead(ok)
  \/ \E response \in ModelResponses : ChatResponseParsed(response)
  \/ \E ok \in BOOLEAN : ChatExecuted(ok)
  \/ ChatDelayElapsed
  \/ ChatTaskReturns

SpecChat == InitChat /\ [][NextChat]_vars

\* C37: at the end of every iteration, failed ones included, the chat
\* history holds at most maxMessages messages and its first message is the
\* system prompt.
C37_HistoryBounded ==
  chat.pc \in {"delay", "errorDelay", "returned"}
    => (chat.length <= maxMessages /\ chat.system = 1)

\* ------------------------------------------------------------------------
\* RateLimiter: checkLimit and waitForSlot
\*
\* Time is the millisecond clock Date.now(), which starts at 1 and does not
\* go back; the limiter is one of LimiterConfigs (maxRequests >= 1);
\* granted counts, per millisecond, the requests granted at it. Two callers
\* may wait for a slot at the same time. reset() is not called.
\* ------------------------------------------------------------------------
LimitOnly ==
  UNCHANGED <<tabVars, scanVars, actVars, riskVars, pageVars, fsVars, toon,
              loopVars, viewVars, cleaned, waiting, chat>>

\* the last millisecond of the clock
MaxTime == 7

Times == 1..MaxTime

LimiterConfigs ==
  {[maxRequests |-> 1, windowMs |-> 2], [maxRequests |-> 2, windowMs |-> 3],
   [maxRequests |-> 2, windowMs |-> 2]}

Waiters == {"w1", "w2"}

NoResult == [call |-> "none"]

\* a limiter that forgets a request one millisecond early
checkLimitShort(l) ==
  LET windowStart == l.now - l.config.windowMs
      kept == SelectSeq(l.requests, LAMBDA t : t > windowStart + 1)
      allowed == Len(kept) < l.config.maxRequests
      requests == IF allowed THEN Append(kept, l.now) ELSE kept
      resetTime == IF requests # <<>> /\ requests[1] # 0
                   THEN requests[1] + l.config.windowMs ELSE l.now
  IN [requests |-> requests, allowed |-> allowed,
      waitTime |-> IF allowed THEN 0
                   ELSE IF resetTime > l.now THEN resetTime - l.now ELSE 0]

\* checkLimit(): the requests kept, whether this one is allowed, and the
\* time to wait when it is not
checkLimit(l) ==
  LET windowStart == l.now - l.config.windowMs
      kept == SelectSeq(l.requests, LAMBDA t : t > windowStart)
      allowed == Len(kept) < l.config.maxRequests
      requests == IF allowed THEN Append(kept, l.now) ELSE kept
      resetTime == IF requests # <<>> /\ requests[1] # 0
                   THEN requests[1] + l.config.windowMs ELSE l.now
  IN [requests |-> requests, allowed |-> allowed,
      waitTime |-> IF allowed THEN 0
                   ELSE IF resetTime > l.now THEN resetTime - l.now ELSE 0]

\* the limiter after a checkLimit call made by who
LimitChecked(l, who, slept) ==
  LET r == checkLimit(l)
  IN [l EXCEPT !.requests = r.requests,
               !.granted = IF r.allowed
                           THEN [@ EXCEPT ![l.now] = @ + 1] ELSE @,
               !.result = [call |-> "checkLimit", by |-> who,
                           allowed |-> r.allowed, waitTime |-> r.waitTime,
                           slept |-> slept]]

\* one millisecond passes
Tick ==
  /\ limiter.now < MaxTime
  /\ limiter' = [limiter EXCEPT !.now = @ + 1]
  /\ LimitOnly

\* a caller asks checkLimit()
CheckLimitCalled ==
  /\ limiter' = LimitChecked(limiter, "caller", FALSE)
  /\ LimitOnly

\* waitForSlot(): return when the request is allowed, else sleep waitTime
\* and check again
WaitForSlotCalled(w) ==
  /\ limiter.sleeping[w] = 0
  /\ LET l == LimitChecked(limiter, w, FALSE)
     IN limiter' = IF l.result.allowed THEN l
                   ELSE [l EXCEPT !.sleeping[w] = l.now + l.result.waitTime]
  /\ LimitOnly

\* the sleep is over: return this.waitForSlot()
WaitForSlotWakes(w) ==
  /\ limiter.sleeping[w] # 0
  /\ limiter.now >= limiter.sleeping[w]
  /\ LET l == LimitChecked(limiter, w, TRUE)
     IN limiter' = IF l.result.allowed THEN [l EXCEPT !.sleeping[w] = 0]
                   ELSE [l EXCEPT !.sleeping[w] = l.now + l.result.waitTime]
  /\ LimitOnly

InitLimit ==
  /\ InitTabVars
  /\ InitScanVars
  /\ InitActVars
  /\ InitRiskVars
  /\ InitPageVars
  /\ InitFsVars
  /\ InitToon
  /\ InitLoopVars
  /\ InitViewVars
  /\ cleaned = NoText
  /\ waiting = NoWait
  /\ chat = NoChat
  /\ limiter \in [config : LimiterConfigs, now : {1}, requests : {<<>>},
                  granted : {[t \in Times |-> 0]},
                  sleeping : {[w \in Waiters |-> 0]}, result : {NoResult}]

NextLimit ==
  \/ Tick
  \/ CheckLimitCalled
  \/ \E w \in Waiters : WaitForSlotCalled(w)
  \/ \E w \in Waiters : WaitForSlotWakes(w)

SpecLimit == InitLimit /\ [][NextLimit]_vars

RECURSIVE GrantedIn(_, _, _)
\* the requests granted in the n milliseconds that start at from
GrantedIn(g, from, n) ==
  IF n = 0 \/ from > MaxTime THEN 0
  ELSE g[from] + GrantedIn(g, from + 1, n - 1)

\* C38: in any windowMs consecutive milliseconds at most maxRequests
\* requests are granted (by checkLimit allowing, or by waitForSlot
\* returning), and a checkLimit that denies records nothing.
C38_WindowHoldsLimit ==
  /\ [](\A from \in Times :
          GrantedIn(limiter.granted, from, limiter.config.windowMs)
            <= limiter.config.maxRequests)
  /\ [][ (limiter'.result # NoResult /\ ~limiter'.result.allowed)
           => /\ limiter'.granted = limiter.granted
              /\ Len(limiter'.requests) <= Len(limiter.requests)
              /\ limiter.now \notin Range(limiter.requests)
                   => limiter'.now \notin Range(limiter'.requests)
       ]_vars

\* a caller that had to sleep was let through after the window moved on:
\* more requests than maxRequests have been granted in all
C38_Witness ==
  /\ limiter.result # NoResult
  /\ limiter.result.allowed /\ limiter.result.slept
  /\ GrantedIn(limiter.granted, 1, MaxTime) > limiter.config.maxRequests

\* ------------------------------------------------------------------------
\* The agent's current page while tabs open, close and are switched to:
\* the registry, navigate_to in a new tab, and switch_to_page
\* ------------------------------------------------------------------------
\* case 'switch_to_page' once switchToPage(pageId) has returned:
\* this.currentPageId = pageId
SwitchToPageDone ==
  /\ call = IdleCall
  /\ currentPageId # NULL
  /\ obs.op = "switchToTab" /\ obs.err = ""
  /\ currentPageId' = obs.id
  /\ obs' = NoObs
  /\ UNCHANGED <<ctxPages, opened, pageEvents, pages, nextPageId,
                 activePageId, lastActivatedPageId, call, assigned>>
  /\ NavOnly

NextAgentTabs ==
  \/ NextNav
  \/ SwitchToPageDone

SpecAgentTabs == InitTabs /\ [][NextAgentTabs]_vars

\* C39: when the agent starts an action on its current page (a navigation
\* or a switch that gets as far as the registry), the current page id is
\* the id of a registered tab whose page is open.
C39_CurrentPageLive ==
  [][ (/\ call = IdleCall
       /\ currentPageId # NULL
       /\ call'.op \in {"navigateTo", "switchToTab"})
        => /\ currentPageId \in Ids(pages)
           /\ Live(currentPageId)
    ]_vars

====
